---------------------------- MODULE Spec2Model ----------------------------
(***************************************************************************)
(* The signal engine of the RSI/slope backtester:                          *)
(*   backend/services/slope.py    calculate_slope                          *)
(*   backend/services/signals.py  apply_slope_filter                       *)
(*                                                                         *)
(* apply_slope_filter makes one forward pass over the merged, date-sorted  *)
(* rows.  Iteration i reads row i only, and the slope of row i depends on  *)
(* the closes of rows i-window+1..i only, so the rows are drawn one at a   *)
(* time as the loop reads them: the state after k rows is the state the    *)
(* function returns for the k-row series, and every reachable state is     *)
(* the result of one call.                                                 *)
(*                                                                         *)
(* Numbers.  Closes are integer-valued floats, NaN is the Close of a row   *)
(* the left merge found no price for.  Computed floats (slope, return_pct) *)
(* are exact fractions <<num, den>> with den > 0; <<0, 0>> is NaN.          *)
(* Dates are day numbers.  Rows are numbered from 1 (row i of the model is *)
(* index i-1 of the code).                                                 *)
(***************************************************************************)
EXTENDS Integers, Sequences, FiniteSets, TLC

\* ---- the inputs ---------------------------------------------------------------
\* rows of a drawn series
MaxLen == 5
\* longest series on which the function is called a second time
MaxReplay == 4
\* longest price series handed to calculate_slope on its own
MaxSeries == 4
\* longest array of returns handed to calculate_max_drawdown on its own
MaxReturns == 3
\* longest list of trades handed to the functions of metrics.py
MaxTrades == 2

\* NaN in a float column whose other values are non-negative integers
NaN == 0 - 1
\* entry_date = None
None == 0 - 1
\* NaN of a computed float
NaNFrac == <<0, 0>>

\* Close: missing, a zero price, a low and a high price.  With a window of 2
\* the slopes are -100, -50, 0 and 100 percent.
Prices == {NaN, 0, 1, 2}
\* slope_window; a window of 1 has x_var = 0 and no defined slope at all
Windows == {2}
\* pos_threshold: one that a slope equals going down, one that a flat slope equals
PosThresholds == {0 - 50, 0}
SignalTypes == {"Both", "RSI", "Slope"}

\* The example series of the specification, section 8
Example ==
    [prices |-> <<100, 102, 104, 106, 108, 110, 112, 114, 110, 108, 106, 104, 102, 100>>,
     window |-> 5, threshold |-> 0]

\* neg_threshold: the default of the endpoints and another value
DefaultNegThreshold == 0
NegThresholds == {DefaultNegThreshold, 10}

\* no earlier call, no function call
NoPrior ==
    [called |-> FALSE, neg_threshold |-> DefaultNegThreshold,
     dates |-> <<>>, actives |-> <<>>, closes |-> <<>>, trades |-> <<>>,
     flags |-> <<>>, entry_signals |-> <<>>, exit_signals |-> <<>>, in_trades |-> <<>>]
NoArgs == [fn |-> "none"]
NoResult == [done |-> FALSE, value |-> 0]

\* Date of row i: one row per trading day, the first row on a Thursday (day 4
\* of the week that starts on day 1), Saturdays and Sundays have no row.
TradingDay(i) == (i + 3) + 2 * ((i + 2) \div 5)

VARIABLES
    source,             \* where the rows come from: drawn, or the example
    signal_type, slope_window, pos_threshold,
    dates, actives, closes, slopes,     \* merged columns, rows read so far
    flags, entry_signals, exit_signals, in_trades,   \* output columns
    flag, in_position, entry_price, entry_date, entry_type,
    rsi_just_activated, prev_slope_active,
    trades,
    neg_threshold,      \* the parameter no line of the loop reads
    prior,              \* what an earlier call on the same series returned
    args, result,       \* a call of a function of metrics.py or equity.py
    cache,              \* what lru_cache holds of _compute_branch_overview_cached
    futures,            \* the futures of the executor, in the order submitted
    overviews, completed,   \* locals of the overview endpoints
    events              \* what the generator of the stream has yielded

vars == <<source, signal_type, slope_window, pos_threshold,
          dates, actives, closes, slopes,
          flags, entry_signals, exit_signals, in_trades,
          flag, in_position, entry_price, entry_date, entry_type,
          rsi_just_activated, prev_slope_active, trades,
          neg_threshold, prior, args, result,
          cache, futures, overviews, completed, events>>

\* the endpoints of routers/analysis.py at rest
poolvars == <<cache, futures, overviews, completed, events>>
NoPool ==
    /\ cache = <<>> /\ futures = <<>> /\ overviews = <<>> /\ completed = 0
    /\ events = <<>>

\* ---- fractions ------------------------------------------------------------
IsNaN(f) == f[2] = 0
\* f > t for a fraction f and an integer t; any comparison with NaN is false
FracGt(f, t) == ~IsNaN(f) /\ f[1] > t * f[2]
FracLe(f, t) == ~IsNaN(f) /\ f[1] <= t * f[2]
FracEq(f, g) == IF IsNaN(f) \/ IsNaN(g) THEN IsNaN(f) /\ IsNaN(g)
                ELSE f[1] * g[2] = g[1] * f[2]

RECURSIVE Sum(_)
Sum(s) == IF s = <<>> THEN 0 ELSE Head(s) + Sum(Tail(s))

\* float arithmetic on exact fractions in lowest terms, NaN absorbing
Abs(x) == IF x < 0 THEN 0 - x ELSE x
RECURSIVE GCD(_, _)
GCD(a, b) == IF b = 0 THEN a ELSE GCD(b, a % b)
Frac(n, d) ==
    IF d = 0 THEN NaNFrac
    ELSE LET g == GCD(Abs(n), Abs(d))
             sgn == IF d < 0 THEN 0 - 1 ELSE 1
         IN  <<(sgn * n) \div g, (sgn * d) \div g>>
FracOf(n) == <<n, 1>>
FracAdd(f, g) ==
    IF IsNaN(f) \/ IsNaN(g) THEN NaNFrac
    ELSE Frac(f[1] * g[2] + g[1] * f[2], f[2] * g[2])
FracSub(f, g) ==
    IF IsNaN(f) \/ IsNaN(g) THEN NaNFrac
    ELSE Frac(f[1] * g[2] - g[1] * f[2], f[2] * g[2])
\* a/b * c/d, reduced crosswise before multiplying
FracMul(f, g) ==
    IF IsNaN(f) \/ IsNaN(g) THEN NaNFrac
    ELSE IF f[1] = 0 \/ g[1] = 0 THEN FracOf(0)
    ELSE LET g1 == GCD(Abs(f[1]), Abs(g[2]))
             g2 == GCD(Abs(g[1]), Abs(f[2]))
         IN  Frac((f[1] \div g1) * (g[1] \div g2), (f[2] \div g2) * (g[2] \div g1))
\* 0/0 is NaN; no call of the model divides a nonzero value by zero
FracDiv(f, g) ==
    IF IsNaN(f) \/ IsNaN(g) \/ g[1] = 0 THEN NaNFrac
    ELSE FracMul(f, <<g[2], g[1]>>)
\* f < g, by the sign of g and the quotient f/g; any comparison with NaN is
\* false
FracLt(f, g) ==
    /\ ~IsNaN(f) /\ ~IsNaN(g)
    /\ LET a == Frac(f[1], f[2])
           b == Frac(g[1], g[2])
           q == FracDiv(a, b)
       IN  IF b[1] = 0 THEN a[1] < 0
           ELSE IF b[1] > 0 THEN q[1] < q[2]
           ELSE q[1] > q[2]
\* np.maximum and np.minimum: NaN if either is
FracMax(f, g) == IF IsNaN(f) \/ IsNaN(g) THEN NaNFrac ELSE IF FracLt(f, g) THEN g ELSE f
FracMin(f, g) == IF IsNaN(f) \/ IsNaN(g) THEN NaNFrac ELSE IF FracLt(g, f) THEN g ELSE f
RECURSIVE Pow10(_)
Pow10(k) == IF k = 0 THEN 1 ELSE 10 * Pow10(k - 1)
\* round(f, places): to the nearest multiple of 10^-places,
\* a tie to the even one; round(NaN) is NaN
Round(f, places) ==
    IF IsNaN(f) THEN NaNFrac
    ELSE LET n == f[1] * Pow10(places)
             q == n \div f[2]
             twice == 2 * (n - q * f[2])
             up == twice > f[2] \/ (twice = f[2] /\ q % 2 = 1)
         IN  Frac(IF up THEN q + 1 ELSE q, Pow10(places))
RECURSIVE FracSum(_)
FracSum(s) == IF s = <<>> THEN FracOf(0) ELSE FracAdd(Head(s), FracSum(Tail(s)))

\* ---- slope.py ---------------------------------------------------------------
\* The window ending at row i: element x (0-based, as np.arange) of it.
WindowAt(prices, i, window, x) == prices[i - window + 1 + x]

\* SlopePct relative to the last price of the window
SlopePct_lastbase(prices, i, window) ==
    LET y == [k \in 1 .. window |-> WindowAt(prices, i, window, k - 1)]
        dx == [k \in 1 .. window |-> 2 * (k - 1) - (window - 1)]
        hasNaN == \E k \in 1 .. window : y[k] = NaN
        ysum == Sum(y)
        cov == [k \in 1 .. window |-> dx[k] * (window * y[k] - ysum)]
        sq == [k \in 1 .. window |-> dx[k] * dx[k]]
        base == y[window]
    IN  IF base = 0 THEN <<0, 1>>
        ELSE IF hasNaN THEN NaNFrac
        ELSE <<2 * Sum(cov) * (window - 1) * 100, window * Sum(sq) * base>>

\* slopes_raw (line 33) times (window - 1) / base * 100 (line 42), with
\* x - x_mean = (2x - (window-1)) / 2, y - y_mean = (window*y - sum y) / window
\* and x_var = sum (2x - (window-1))^2 / 4.
SlopePct(prices, i, window) ==
    LET y == [k \in 1 .. window |-> WindowAt(prices, i, window, k - 1)]
        dx == [k \in 1 .. window |-> 2 * (k - 1) - (window - 1)]
        hasNaN == \E k \in 1 .. window : y[k] = NaN
        ysum == Sum(y)
        cov == [k \in 1 .. window |-> dx[k] * (window * y[k] - ysum)]
        sq == [k \in 1 .. window |-> dx[k] * dx[k]]
        base == y[1]
    IN  IF base = 0 THEN <<0, 1>>
        ELSE IF hasNaN THEN NaNFrac
        ELSE <<2 * Sum(cov) * (window - 1) * 100, window * Sum(sq) * base>>

\* calculate_slope padding one value more
calculate_slope_longpad(prices, i, window) ==
    IF i <= window THEN NaNFrac ELSE SlopePct(prices, i, window)

calculate_slope(prices, i, window) ==
    IF i < window THEN NaNFrac ELSE SlopePct(prices, i, window)

\* lines 15-50: the whole series of slopes
calculate_slope_series(prices, window) ==
    [i \in 1 .. Len(prices) |-> calculate_slope(prices, i, window)]

\* ---- metrics.py -------------------------------------------------------------
\* np.cumprod
RECURSIVE cumprod(_)
cumprod(xs) ==
    IF xs = <<>> THEN <<>>
    ELSE LET before == cumprod(SubSeq(xs, 1, Len(xs) - 1))
             x == xs[Len(xs)]
         IN  Append(before, IF before = <<>> THEN x ELSE FracMul(before[Len(before)], x))

\* np.maximum.accumulate
RECURSIVE maximum_accumulate(_)
maximum_accumulate(xs) ==
    IF xs = <<>> THEN <<>>
    ELSE LET before == maximum_accumulate(SubSeq(xs, 1, Len(xs) - 1))
             x == xs[Len(xs)]
         IN  Append(before, IF before = <<>> THEN x ELSE FracMax(before[Len(before)], x))

\* np.min of a non-empty array
RECURSIVE np_min(_)
np_min(xs) == IF Len(xs) = 1 THEN xs[1] ELSE FracMin(xs[1], np_min(Tail(xs)))

\* calculate_max_drawdown with the running maximum starting from the equity
\* of 1 before the first return
calculate_max_drawdown_frominitial(returns) ==
    IF Len(returns) = 0 THEN FracOf(0)
    ELSE LET equity == cumprod([k \in 1 .. Len(returns) |->
                           FracAdd(FracOf(1), FracDiv(returns[k], FracOf(100)))])
             running_max == Tail(maximum_accumulate(<<FracOf(1)>> \o equity))
             drawdown == [k \in 1 .. Len(returns) |->
                            FracMul(FracSub(FracDiv(equity[k], running_max[k]), FracOf(1)),
                                    FracOf(100))]
         IN  np_min(drawdown)

\* lines 38-55
calculate_max_drawdown(returns) ==
    IF Len(returns) = 0 THEN FracOf(0)
    ELSE LET equity == cumprod([k \in 1 .. Len(returns) |->
                           FracAdd(FracOf(1), FracDiv(returns[k], FracOf(100)))])
             running_max == maximum_accumulate(equity)
             drawdown == [k \in 1 .. Len(returns) |->
                            FracMul(FracSub(FracDiv(equity[k], running_max[k]), FracOf(1)),
                                    FracOf(100))]
         IN  np_min(drawdown)

\* the value of a function that returns None
PyNone == [is_none |-> TRUE]

\* np.mean
mean(xs) == FracDiv(FracSum(xs), FracOf(Len(xs)))

RECURSIVE min_date(_)
min_date(ds) == IF Len(ds) = 1 THEN ds[1]
                ELSE LET m == min_date(Tail(ds)) IN IF ds[1] < m THEN ds[1] ELSE m
RECURSIVE max_date(_)
max_date(ds) == IF Len(ds) = 1 THEN ds[1]
                ELSE LET m == max_date(Tail(ds)) IN IF ds[1] > m THEN ds[1] ELSE m

\* lines 110-116: time_in_market before it is rounded
time_in_market_of(ts) ==
    LET total_days_in_market == Sum([k \in 1 .. Len(ts) |-> ts[k].days_held])
        first_entry == min_date([k \in 1 .. Len(ts) |-> ts[k].entry_date])
        last_exit == max_date([k \in 1 .. Len(ts) |-> ts[k].exit_date])
        date_range == last_exit - first_entry
    IN  IF date_range > 0
        THEN FracMul(FracDiv(FracOf(total_days_in_market), FracOf(date_range)), FracOf(100))
        ELSE FracOf(0)

\* lines 110-128 of calculate_performance_metrics, from the values of lines
\* 98-113. sharpe_ratio and volatility are square roots of the variance of
\* the returns and are left out of the record.
PerformanceMetrics(returns, days_held, date_range, time_in_market) ==
    [total_return |-> Round(FracSum(returns), 2),
     win_rate |-> Round(FracMul(FracDiv(FracOf(Len(SelectSeq(returns, LAMBDA r : FracGt(r, 0)))),
                                        FracOf(Len(returns))), FracOf(100)), 2),
     max_drawdown |-> Round(calculate_max_drawdown(returns), 2),
     num_trades |-> Len(returns),
     time_in_market |-> Round(time_in_market, 2),
     avg_days_held |-> Round(mean([k \in 1 .. Len(days_held) |-> FracOf(days_held[k])]), 2),
     avg_return |-> Round(mean(returns), 2)]

\* calculate_performance_metrics returning a zero-valued record for no trade
calculate_performance_metrics_zeroed(ts) ==
    IF ts = <<>> THEN PerformanceMetrics(<<>>, <<>>, 0, FracOf(0))
    ELSE LET returns == [k \in 1 .. Len(ts) |-> ts[k].return_pct]
             days_held == [k \in 1 .. Len(ts) |-> ts[k].days_held]
             total_days_in_market == Sum(days_held)
             first_entry == min_date([k \in 1 .. Len(ts) |-> ts[k].entry_date])
             last_exit == max_date([k \in 1 .. Len(ts) |-> ts[k].exit_date])
             date_range == last_exit - first_entry
             time_in_market ==
                 IF date_range > 0
                 THEN FracMul(FracDiv(FracOf(total_days_in_market), FracOf(date_range)),
                              FracOf(100))
                 ELSE FracOf(0)
         IN  PerformanceMetrics(returns, days_held, date_range, time_in_market)

\* calculate_performance_metrics dividing by the span whatever it is
calculate_performance_metrics_unguarded(ts) ==
    IF ts = <<>> THEN PyNone
    ELSE LET returns == [k \in 1 .. Len(ts) |-> ts[k].return_pct]
             days_held == [k \in 1 .. Len(ts) |-> ts[k].days_held]
             total_days_in_market == Sum(days_held)
             first_entry == min_date([k \in 1 .. Len(ts) |-> ts[k].entry_date])
             last_exit == max_date([k \in 1 .. Len(ts) |-> ts[k].exit_date])
             date_range == last_exit - first_entry
             time_in_market ==
                 FracMul(FracDiv(FracOf(total_days_in_market), FracOf(date_range)),
                         FracOf(100))
         IN  PerformanceMetrics(returns, days_held, date_range, time_in_market)

\* lines 83-128
calculate_performance_metrics(ts) ==
    IF ts = <<>> THEN PyNone
    ELSE LET returns == [k \in 1 .. Len(ts) |-> ts[k].return_pct]
             days_held == [k \in 1 .. Len(ts) |-> ts[k].days_held]
             total_days_in_market == Sum(days_held)
             first_entry == min_date([k \in 1 .. Len(ts) |-> ts[k].entry_date])
             last_exit == max_date([k \in 1 .. Len(ts) |-> ts[k].exit_date])
             date_range == last_exit - first_entry
             time_in_market ==
                 IF date_range > 0
                 THEN FracMul(FracDiv(FracOf(total_days_in_market), FracOf(date_range)),
                              FracOf(100))
                 ELSE FracOf(0)
         IN  PerformanceMetrics(returns, days_held, date_range, time_in_market)

\* Timestamp.year of a day number: day 1 is Monday 2023-12-25, the 359th day
\* of its year
Epoch == [year |-> 2023, day_of_year |-> 358]
DaysIn(y) == IF y % 4 = 0 /\ (y % 100 # 0 \/ y % 400 = 0) THEN 366 ELSE 365
RECURSIVE YearFrom(_, _)
YearFrom(y, doy) == IF doy <= DaysIn(y) THEN y ELSE YearFrom(y + 1, doy - DaysIn(y))
YearOf(day) == YearFrom(Epoch.year, Epoch.day_of_year + day)

\* sorted(keys)
RECURSIVE sorted(_)
sorted(S) ==
    IF S = {} THEN <<>>
    ELSE LET m == CHOOSE x \in S : \A y \in S : x <= y
         IN  <<m>> \o sorted(S \ {m})

\* lines 161-171: the entry of one year
YearlyStats(year, year_trades) ==
    LET returns == [k \in 1 .. Len(year_trades) |-> year_trades[k].return_pct]
    IN  [year |-> year,
         return_pct |-> Round(FracSum(returns), 2),
         max_drawdown |-> Round(calculate_max_drawdown(returns), 2),
         trades |-> Len(year_trades),
         avg_hold |-> Round(mean([k \in 1 .. Len(year_trades) |->
                                     FracOf(year_trades[k].days_held)]), 1)]

\* compute_yearly_stats grouping by the year of the entry
compute_yearly_stats_entryyear(ts) ==
    IF ts = <<>> THEN <<>>
    ELSE LET keys == {YearOf(ts[k].entry_date) : k \in 1 .. Len(ts)}
             trades_by_year ==
                 [y \in keys |-> SelectSeq(ts, LAMBDA t : YearOf(t.entry_date) = y)]
             years == sorted(keys)
         IN  [n \in 1 .. Len(years) |-> YearlyStats(years[n], trades_by_year[years[n]])]

\* lines 131-173
compute_yearly_stats(ts) ==
    IF ts = <<>> THEN <<>>
    ELSE LET keys == {YearOf(ts[k].exit_date) : k \in 1 .. Len(ts)}
             trades_by_year ==
                 [y \in keys |-> SelectSeq(ts, LAMBDA t : YearOf(t.exit_date) = y)]
             years == sorted(keys)
         IN  [n \in 1 .. Len(years) |-> YearlyStats(years[n], trades_by_year[years[n]])]

\* x ** (1 / n) for a positive integer n and a fraction x that has such a
\* root among the fractions
IntRoot(x, n) == CHOOSE r \in 0 .. x : (IF n = 1 THEN r ELSE r * r) = x
Root(f, n) == <<IntRoot(f[1], n), IntRoot(f[2], n)>>

\* compute_cagr with the floor tested before the years
compute_cagr_floorfirst(total_return_pct, years) ==
    LET total_multiplier == FracAdd(FracOf(1), FracDiv(total_return_pct, FracOf(100)))
    IN  IF FracLe(total_multiplier, 0) THEN FracOf(0 - 100)
        ELSE IF years <= 0 THEN FracOf(0)
        ELSE Round(FracMul(FracSub(Root(total_multiplier, years), FracOf(1)), FracOf(100)), 2)

\* lines 176-198
compute_cagr(total_return_pct, years) ==
    IF years <= 0 THEN FracOf(0)
    ELSE LET total_multiplier == FracAdd(FracOf(1), FracDiv(total_return_pct, FracOf(100)))
         IN  IF FracLe(total_multiplier, 0) THEN FracOf(0 - 100)
             ELSE Round(FracMul(FracSub(Root(total_multiplier, years), FracOf(1)),
                                FracOf(100)), 2)

\* ---- equity.py, alpaca_vix_equity.py -----------------------------------------
\* 2025-12-18, a Thursday, as a day number
LIVE_ENTRY_DATE == 725

RECURSIVE DayOfYearFrom(_, _)
DayOfYearFrom(y, doy) ==
    IF doy <= DaysIn(y) THEN doy ELSE DayOfYearFrom(y + 1, doy - DaysIn(y))
\* strftime("%Y-%m-%d"): the text that names the day, here by its year and
\* its day within the year
date_str(day) == <<YearOf(day), DayOfYearFrom(Epoch.year, Epoch.day_of_year + day)>>

\* equity.py 95-102, alpaca_vix_equity.py 66-69: the rows of the csv with
\* their equity, none of them live
equity_of(rows, initial_equity) ==
    LET growth == cumprod([k \in 1 .. Len(rows) |->
                              FracAdd(FracOf(1), rows[k].Portfolio_Return)])
    IN  [k \in 1 .. Len(rows) |->
            [Date |-> rows[k].Date, daily_return |-> rows[k].Portfolio_Return,
             is_live |-> FALSE, equity |-> FracMul(growth[k], initial_equity)]]

\* combine leaving the live equities as the broker reports them
combine_unscaled(csv, alpaca, initial_equity) ==
    LET historical_df ==
            equity_of(SelectSeq(csv, LAMBDA r : r.Date < LIVE_ENTRY_DATE), initial_equity)
        kept == SelectSeq(alpaca, LAMBDA r : r.Date >= LIVE_ENTRY_DATE)
        alpaca_df == [k \in 1 .. Len(kept) |->
                        [Date |-> kept[k].Date, daily_return |-> kept[k].daily_return,
                         is_live |-> TRUE, equity |-> kept[k].equity]]
    IN  IF alpaca # <<>> THEN historical_df \o alpaca_df ELSE historical_df

\* equity.py 94-127: the historical rows, then the live rows scaled to go on
\* from the last historical equity. alpaca is the frame _fetch_alpaca_history
\* returns, <<>> for None or an empty one.
combine(csv, alpaca, initial_equity) ==
    LET historical_df ==
            equity_of(SelectSeq(csv, LAMBDA r : r.Date < LIVE_ENTRY_DATE), initial_equity)
        last_historical_equity ==
            IF historical_df # <<>> THEN historical_df[Len(historical_df)].equity
            ELSE initial_equity
        kept == SelectSeq(alpaca, LAMBDA r : r.Date >= LIVE_ENTRY_DATE)
        live == [k \in 1 .. Len(kept) |->
                    [Date |-> kept[k].Date, daily_return |-> kept[k].daily_return,
                     is_live |-> TRUE, equity |-> kept[k].equity]]
        alpaca_df ==
            IF live # <<>> /\ FracGt(live[1].equity, 0)
            THEN LET scale_factor == FracDiv(last_historical_equity, live[1].equity)
                 IN  [k \in 1 .. Len(live) |->
                         [live[k] EXCEPT !.equity = FracMul(@, scale_factor)]]
            ELSE live
    IN  IF alpaca # <<>> THEN historical_df \o alpaca_df ELSE historical_df

\* equity.py 130-133, alpaca_vix_equity.py 53-56
date_filter(df, start_date, end_date) ==
    SelectSeq(SelectSeq(df, LAMBDA r : start_date = None \/ r.Date >= start_date),
              LAMBDA r : end_date = None \/ r.Date <= end_date)

\* Series.cummax and Series.max of equities, none of them NaN
cummax(xs) == maximum_accumulate(xs)
RECURSIVE series_max(_)
series_max(xs) == IF Len(xs) = 1 THEN xs[1] ELSE FracMax(xs[1], series_max(Tail(xs)))

\* with_drawdown with the sign of calculate_max_drawdown: equity below its
\* peak is a negative percentage
with_drawdown_signed(df) ==
    LET peak == cummax([k \in 1 .. Len(df) |-> df[k].equity])
    IN  [k \in 1 .. Len(df) |->
            [Date |-> df[k].Date, daily_return |-> df[k].daily_return,
             is_live |-> df[k].is_live, equity |-> df[k].equity, peak |-> peak[k],
             drawdown_pct |-> FracMul(FracDiv(FracSub(df[k].equity, peak[k]), peak[k]),
                                      FracOf(100))]]

\* equity.py 139-140, alpaca_vix_equity.py 72-73
with_drawdown(df) ==
    LET peak == cummax([k \in 1 .. Len(df) |-> df[k].equity])
    IN  [k \in 1 .. Len(df) |->
            [Date |-> df[k].Date, daily_return |-> df[k].daily_return,
             is_live |-> df[k].is_live, equity |-> df[k].equity, peak |-> peak[k],
             drawdown_pct |-> FracMul(FracDiv(FracSub(peak[k], df[k].equity), peak[k]),
                                      FracOf(100))]]

\* dict(zip(date_str, close)): the last row of a day is the one kept
spy_dict_of(spy_df) ==
    [ds \in {date_str(spy_df[k].date) : k \in 1 .. Len(spy_df)} |->
        spy_df[CHOOSE k \in 1 .. Len(spy_df) :
                  /\ date_str(spy_df[k].date) = ds
                  /\ \A j \in k + 1 .. Len(spy_df) : date_str(spy_df[j].date) # ds].close]

\* equity.py 148-155: the first row of df whose date the benchmark has, 0
\* when there is none
first_common(df, spy_dict) ==
    LET common == {k \in 1 .. Len(df) : date_str(df[k].Date) \in DOMAIN spy_dict}
    IN  IF common = {} THEN 0 ELSE CHOOSE k \in common : \A j \in common : k <= j

\* data_points with the benchmark normalised at the first row of df
data_points_fromstart(df, spy_dict) ==
    LET first_spy_price ==
            IF date_str(df[1].Date) \in DOMAIN spy_dict
            THEN spy_dict[date_str(df[1].Date)] ELSE PyNone
        first_system_equity ==
            IF date_str(df[1].Date) \in DOMAIN spy_dict THEN df[1].equity ELSE PyNone
    IN  [k \in 1 .. Len(df) |->
            LET ds == date_str(df[k].Date)
                spy_price == IF ds \in DOMAIN spy_dict THEN spy_dict[ds] ELSE PyNone
            IN  [date |-> ds,
                 equity |-> Round(df[k].equity, 2),
                 daily_return |-> Round(FracMul(df[k].daily_return, FracOf(100)), 4),
                 drawdown_pct |-> Round(df[k].drawdown_pct, 2),
                 is_live |-> df[k].is_live,
                 spy_equity |->
                     IF /\ spy_price # PyNone
                        /\ first_spy_price # PyNone
                        /\ first_system_equity # PyNone
                     THEN Round(FracMul(FracDiv(spy_price, first_spy_price),
                                        first_system_equity), 2)
                     ELSE PyNone]]

\* equity.py 142-174 and, line for line, alpaca_vix_equity.py 75-111
data_points(df, spy_dict) ==
    LET first == first_common(df, spy_dict)
        first_spy_price == IF first = 0 THEN PyNone ELSE spy_dict[date_str(df[first].Date)]
        first_system_equity == IF first = 0 THEN PyNone ELSE df[first].equity
    IN  [k \in 1 .. Len(df) |->
            LET ds == date_str(df[k].Date)
                spy_price == IF ds \in DOMAIN spy_dict THEN spy_dict[ds] ELSE PyNone
            IN  [date |-> ds,
                 equity |-> Round(df[k].equity, 2),
                 daily_return |-> Round(FracMul(df[k].daily_return, FracOf(100)), 4),
                 drawdown_pct |-> Round(df[k].drawdown_pct, 2),
                 is_live |-> df[k].is_live,
                 spy_equity |->
                     IF /\ spy_price # PyNone
                        /\ first_spy_price # PyNone
                        /\ first_system_equity # PyNone
                     THEN Round(FracMul(FracDiv(spy_price, first_spy_price),
                                        first_system_equity), 2)
                     ELSE PyNone]]

\* equity.py 176-195, alpaca_vix_equity.py 113-132: the years with two rows
\* or more
yearly_stats_of(df) ==
    LET group == [y \in {YearOf(df[k].Date) : k \in 1 .. Len(df)} |->
                     SelectSeq(df, LAMBDA r : YearOf(r.Date) = y)]
        years == sorted({y \in DOMAIN group : Len(group[y]) >= 2})
    IN  [n \in 1 .. Len(years) |->
            LET g == group[years[n]]
                start_equity == g[1].equity
                end_equity == g[Len(g)].equity
                profit_pct ==
                    IF FracGt(start_equity, 0)
                    THEN FracMul(FracSub(FracDiv(end_equity, start_equity), FracOf(1)),
                                 FracOf(100))
                    ELSE FracOf(0)
                max_dd == series_max([k \in 1 .. Len(g) |-> g[k].drawdown_pct])
            IN  [year |-> years[n],
                 profit_pct |-> Round(profit_pct, 2),
                 max_drawdown_pct |-> Round(max_dd, 2),
                 start_equity |-> Round(start_equity, 2),
                 end_equity |-> Round(end_equity, 2)]]

\* equity.py 72-202. df is the frame the points are built from, kept beside
\* the values returned.
compute_equity_curve(csv_df, alpaca, spy_df, start_date, end_date, initial_equity) ==
    LET filtered == date_filter(combine(csv_df, alpaca, initial_equity), start_date, end_date)
    IN  IF filtered = <<>>
        THEN [data |-> <<>>, yearly_stats |-> <<>>,
              entry_date |-> date_str(LIVE_ENTRY_DATE), df |-> <<>>]
        ELSE LET df == with_drawdown(filtered)
             IN  [data |-> data_points(df, spy_dict_of(spy_df)),
                  yearly_stats |-> yearly_stats_of(df),
                  entry_date |-> date_str(LIVE_ENTRY_DATE),
                  system_name |-> "Alpaca Fund", df |-> df]

\* alpaca_vix_equity.py 34-139
compute_alpaca_vix_equity_curve(csv_df, spy_df, start_date, end_date, initial_equity) ==
    LET filtered == date_filter(csv_df, start_date, end_date)
    IN  IF filtered = <<>>
        THEN [data |-> <<>>, yearly_stats |-> <<>>, entry_date |-> <<2025, 352>>,
              system_name |-> "Alpaca + VIX ETF System", df |-> <<>>]
        ELSE LET df == with_drawdown(equity_of(filtered, initial_equity))
             IN  [data |-> data_points(df, spy_dict_of(spy_df)),
                  yearly_stats |-> yearly_stats_of(df),
                  entry_date |-> <<2025, 352>>,
                  system_name |-> "Alpaca + VIX ETF System", df |-> df]

\* ---- signals.py: the loop body ------------------------------------------------
\* slope_active_of with slope >= pos_threshold
slope_active_of_nonstrict(slope, threshold) == ~IsNaN(slope) /\ slope[1] >= threshold * slope[2]

slope_active_of(slope, threshold) == FracGt(slope, threshold)

slope_just_activated_of(prev, sa) == (~prev) /\ sa

slope_just_deactivated_of(prev, sa) == prev /\ (~sa)

\* rsi_latch by level: every active row counts as just activated
rsi_latch_level(active, f) == active = 1

\* lines 107-110: the oscillator latch
rsi_latch(active, f) == active = 1 /\ f = 0

\* NoDecision that disarms the flag while no position is held
NoDecision_disarming(f, inpos) ==
    [entry |-> FALSE, exit |-> FALSE, etype |-> "Slope", flag |-> IF inpos THEN f ELSE 0,
     in_trade |-> IF inpos THEN 1 ELSE 0]

\* A decision of one row: does an entry fire, does an exit fire, the entry
\* type of the entry, the flag after the row, InTrade of the row.
NoDecision(f, inpos) ==
    [entry |-> FALSE, exit |-> FALSE, etype |-> "Slope", flag |-> f,
     in_trade |-> IF inpos THEN 1 ELSE 0]

\* DecideBoth with entry case 2 not gated by the flag
DecideBoth_ungated(inpos, f, rja, sa, sja, sjd) ==
    IF ~inpos /\ rja /\ sa
    THEN [entry |-> TRUE, exit |-> FALSE, etype |-> "RSI", flag |-> f, in_trade |-> 1]
    ELSE IF ~inpos /\ sja
    THEN [entry |-> TRUE, exit |-> FALSE, etype |-> "Slope", flag |-> f, in_trade |-> 1]
    ELSE IF inpos
    THEN IF sjd
         THEN [entry |-> FALSE, exit |-> TRUE, etype |-> "Slope", flag |-> 0, in_trade |-> 0]
         ELSE [entry |-> FALSE, exit |-> FALSE, etype |-> "Slope", flag |-> f, in_trade |-> 1]
    ELSE [entry |-> FALSE, exit |-> FALSE, etype |-> "Slope", flag |-> f, in_trade |-> 0]

\* DecideBoth with the immediate entry given the type of the slope entry
DecideBoth_mistyped(inpos, f, rja, sa, sja, sjd) ==
    IF ~inpos /\ rja /\ sa
    THEN [entry |-> TRUE, exit |-> FALSE, etype |-> "Slope", flag |-> f, in_trade |-> 1]
    ELSE IF ~inpos /\ f = 1 /\ sja
    THEN [entry |-> TRUE, exit |-> FALSE, etype |-> "Slope", flag |-> f, in_trade |-> 1]
    ELSE IF inpos
    THEN IF sjd
         THEN [entry |-> FALSE, exit |-> TRUE, etype |-> "Slope", flag |-> 0, in_trade |-> 0]
         ELSE [entry |-> FALSE, exit |-> FALSE, etype |-> "Slope", flag |-> f, in_trade |-> 1]
    ELSE [entry |-> FALSE, exit |-> FALSE, etype |-> "Slope", flag |-> f, in_trade |-> 0]

\* DecideBoth with an exit that leaves the flag set
DecideBoth_keepflag(inpos, f, rja, sa, sja, sjd) ==
    IF ~inpos /\ rja /\ sa
    THEN [entry |-> TRUE, exit |-> FALSE, etype |-> "RSI", flag |-> f, in_trade |-> 1]
    ELSE IF ~inpos /\ f = 1 /\ sja
    THEN [entry |-> TRUE, exit |-> FALSE, etype |-> "Slope", flag |-> f, in_trade |-> 1]
    ELSE IF inpos
    THEN IF sjd
         THEN [entry |-> FALSE, exit |-> TRUE, etype |-> "Slope", flag |-> f, in_trade |-> 0]
         ELSE [entry |-> FALSE, exit |-> FALSE, etype |-> "Slope", flag |-> f, in_trade |-> 1]
    ELSE [entry |-> FALSE, exit |-> FALSE, etype |-> "Slope", flag |-> f, in_trade |-> 0]

\* DecideBoth whose slope entry uses the flag up
DecideBoth_disarm(inpos, f, rja, sa, sja, sjd) ==
    IF ~inpos /\ rja /\ sa
    THEN [entry |-> TRUE, exit |-> FALSE, etype |-> "RSI", flag |-> f, in_trade |-> 1]
    ELSE IF ~inpos /\ f = 1 /\ sja
    THEN [entry |-> TRUE, exit |-> FALSE, etype |-> "Slope", flag |-> 0, in_trade |-> 1]
    ELSE IF inpos
    THEN IF sjd
         THEN [entry |-> FALSE, exit |-> TRUE, etype |-> "Slope", flag |-> 0, in_trade |-> 0]
         ELSE NoDecision(f, TRUE)
    ELSE NoDecision(f, FALSE)

\* lines 116-144
DecideBoth(inpos, f, rja, sa, sja, sjd) ==
    IF ~inpos /\ rja /\ sa
    THEN [entry |-> TRUE, exit |-> FALSE, etype |-> "RSI", flag |-> f, in_trade |-> 1]
    ELSE IF ~inpos /\ f = 1 /\ sja
    THEN [entry |-> TRUE, exit |-> FALSE, etype |-> "Slope", flag |-> f, in_trade |-> 1]
    ELSE IF inpos
    THEN IF sjd
         THEN [entry |-> FALSE, exit |-> TRUE, etype |-> "Slope", flag |-> 0, in_trade |-> 0]
         ELSE NoDecision(f, TRUE)
    ELSE NoDecision(f, FALSE)

\* DecideRSI with an exit on every row that is not an entry
DecideRSI_exitalways(inpos, f, active) ==
    IF ~inpos /\ active = 1
    THEN [entry |-> TRUE, exit |-> FALSE, etype |-> "RSI", flag |-> f, in_trade |-> 1]
    ELSE IF inpos
    THEN [entry |-> FALSE, exit |-> TRUE, etype |-> "Slope", flag |-> f, in_trade |-> 0]
    ELSE [entry |-> FALSE, exit |-> FALSE, etype |-> "Slope", flag |-> f, in_trade |-> 0]

\* lines 146-163
DecideRSI(inpos, f, active) ==
    IF ~inpos /\ active = 1
    THEN [entry |-> TRUE, exit |-> FALSE, etype |-> "RSI", flag |-> f, in_trade |-> 1]
    ELSE IF inpos
    THEN IF active = 0
         THEN [entry |-> FALSE, exit |-> TRUE, etype |-> "Slope", flag |-> f, in_trade |-> 0]
         ELSE NoDecision(f, TRUE)
    ELSE NoDecision(f, FALSE)

\* DecideSlope with a non-strict entry and a strict exit
DecideSlope_nonstrict(inpos, f, slope, threshold) ==
    IF ~inpos /\ ~IsNaN(slope) /\ slope[1] >= threshold * slope[2]
    THEN [entry |-> TRUE, exit |-> FALSE, etype |-> "Slope", flag |-> f, in_trade |-> 1]
    ELSE IF inpos
    THEN IF ~IsNaN(slope) /\ slope[1] < threshold * slope[2]
         THEN [entry |-> FALSE, exit |-> TRUE, etype |-> "Slope", flag |-> f, in_trade |-> 0]
         ELSE [entry |-> FALSE, exit |-> FALSE, etype |-> "Slope", flag |-> f, in_trade |-> 1]
    ELSE [entry |-> FALSE, exit |-> FALSE, etype |-> "Slope", flag |-> f, in_trade |-> 0]

\* DecideSlope that stops and reverses: the exit row opens the next position
DecideSlope_reversing(inpos, f, slope, threshold) ==
    IF ~inpos /\ FracGt(slope, threshold)
    THEN [entry |-> TRUE, exit |-> FALSE, etype |-> "Slope", flag |-> f, in_trade |-> 1]
    ELSE IF inpos
    THEN IF FracLe(slope, threshold)
         THEN [entry |-> TRUE, exit |-> TRUE, etype |-> "Slope", flag |-> f, in_trade |-> 1]
         ELSE NoDecision(f, TRUE)
    ELSE NoDecision(f, FALSE)

\* lines 165-182
DecideSlope(inpos, f, slope, threshold) ==
    IF ~inpos /\ FracGt(slope, threshold)
    THEN [entry |-> TRUE, exit |-> FALSE, etype |-> "Slope", flag |-> f, in_trade |-> 1]
    ELSE IF inpos
    THEN IF FracLe(slope, threshold)
         THEN [entry |-> FALSE, exit |-> TRUE, etype |-> "Slope", flag |-> f, in_trade |-> 0]
         ELSE NoDecision(f, TRUE)
    ELSE NoDecision(f, FALSE)

\* trade_return relative to the exit price
trade_return_onexit(ep, xp) ==
    IF ep = NaN \/ xp = NaN THEN NaNFrac ELSE <<(xp - ep) * 100, xp>>

\* lines 186-187
trade_return(ep, xp) ==
    IF ep = NaN \/ xp = NaN THEN NaNFrac ELSE <<(xp - ep) * 100, ep>>

\* days_held counting both the entry day and the exit day
days_held_inclusive(ed, xd) == xd - ed + 1

days_held_of(ed, xd) == xd - ed

\* TradeSignal with the two dates exchanged
TradeSignal_swapped(ed, xd, ep, xp, et) ==
    [entry_date |-> xd, exit_date |-> ed, entry_price |-> ep, exit_price |-> xp,
     return_pct |-> trade_return(ep, xp), days_held |-> days_held_of(ed, xd),
     entry_type |-> et]

\* lines 185-196
TradeSignal(ed, xd, ep, xp, et) ==
    [entry_date |-> ed, exit_date |-> xd, entry_price |-> ep, exit_price |-> xp,
     return_pct |-> trade_return(ep, xp), days_held |-> days_held_of(ed, xd),
     entry_type |-> et]

\* record_trade on every row of an open position, exit or not
record_trade_open(ts, trade_completed, ed, xd, ep, xp, et) ==
    IF ep # 0 THEN Append(ts, TradeSignal(ed, xd, ep, xp, et)) ELSE ts

\* record_trade without the guard on a zero entry price
record_trade_unguarded(ts, trade_completed, ed, xd, ep, xp, et) ==
    IF trade_completed THEN Append(ts, TradeSignal(ed, xd, ep, xp, et)) ELSE ts

record_trade(ts, trade_completed, ed, xd, ep, xp, et) ==
    IF trade_completed /\ ep # 0 THEN Append(ts, TradeSignal(ed, xd, ep, xp, et)) ELSE ts

\* SkipRow with the oscillator latch run on the skipped row
SkipRow_latching ==
    LET f1 == IF actives'[Len(actives')] = 1 THEN 1 ELSE flag
    IN  /\ flag' = f1
        /\ flags' = Append(flags, f1)
        /\ entry_signals' = Append(entry_signals, 0)
        /\ exit_signals' = Append(exit_signals, 0)
        /\ in_trades' = Append(in_trades, 0)
        /\ UNCHANGED <<in_position, entry_price, entry_date, entry_type,
                       rsi_just_activated, prev_slope_active, trades>>

\* SkipRow that forgets where the slope was before the gap
SkipRow_forgetting ==
    /\ flags' = Append(flags, flag)
    /\ entry_signals' = Append(entry_signals, 0)
    /\ exit_signals' = Append(exit_signals, 0)
    /\ in_trades' = Append(in_trades, 0)
    /\ prev_slope_active' = FALSE
    /\ UNCHANGED <<flag, in_position, entry_price, entry_date, entry_type,
                   rsi_just_activated, trades>>

\* lines 97-99: a row without a slope
SkipRow ==
    /\ flags' = Append(flags, flag)
    /\ entry_signals' = Append(entry_signals, 0)
    /\ exit_signals' = Append(exit_signals, 0)
    /\ in_trades' = Append(in_trades, 0)
    /\ UNCHANGED <<flag, in_position, entry_price, entry_date, entry_type,
                   rsi_just_activated, prev_slope_active, trades>>

\* lines 101-199: a row with a slope
ProcessRow(slope, active, close, date) ==
    LET sa == slope_active_of(slope, pos_threshold)
        sja == slope_just_activated_of(prev_slope_active, sa)
        sjd == slope_just_deactivated_of(prev_slope_active, sa)
        rja == rsi_latch(active, flag)
        f1 == IF rja THEN 1 ELSE flag
        d == CASE signal_type = "Both" -> DecideBoth(in_position, f1, rja, sa, sja, sjd)
               [] signal_type = "RSI" -> DecideRSI(in_position, f1, active)
               [] signal_type = "Slope" -> DecideSlope(in_position, f1, slope, pos_threshold)
        ep == IF d.entry THEN close ELSE entry_price
        ed == IF d.entry THEN date ELSE entry_date
        et == IF d.entry THEN d.etype ELSE entry_type
    IN  /\ rsi_just_activated' = rja
        /\ flag' = d.flag
        /\ in_position' = IF d.entry THEN TRUE ELSE IF d.exit THEN FALSE ELSE in_position
        /\ entry_price' = ep
        /\ entry_date' = ed
        /\ entry_type' = et
        /\ trades' = record_trade(trades, d.exit, ed, date, ep, close, et)
        /\ flags' = Append(flags, d.flag)
        /\ entry_signals' = Append(entry_signals, IF d.entry THEN 1 ELSE 0)
        /\ exit_signals' = Append(exit_signals, IF d.exit THEN 1 ELSE 0)
        /\ in_trades' = Append(in_trades, d.in_trade)
        /\ prev_slope_active' = sa

\* lines 91-199: one iteration of the loop, on the next row of the series
Iteration(date, active, close) ==
    LET i == Len(closes) + 1
        cs == Append(closes, close)
        slope == calculate_slope(cs, i, slope_window)
    IN  /\ dates' = Append(dates, date)
        /\ actives' = Append(actives, active)
        /\ closes' = cs
        /\ slopes' = Append(slopes, slope)
        /\ IF IsNaN(slope) THEN SkipRow ELSE ProcessRow(slope, active, close, date)
        /\ UNCHANGED <<source, signal_type, slope_window, pos_threshold,
                       neg_threshold, prior, args, result, poolvars>>

\* a row of a series drawn from the bounded sets
DrawnRow ==
    /\ source.name = "drawn"
    /\ ~prior.called
    /\ Len(closes) < MaxLen
    /\ \E active \in {0, 1}, close \in Prices :
           Iteration(TradingDay(Len(closes) + 1), active, close)

\* a row of the example series, the oscillator active on one row of it
ExampleRow ==
    /\ source.name = "example"
    /\ ~prior.called
    /\ Len(closes) < Len(Example.prices)
    /\ LET i == Len(closes) + 1
       IN  Iteration(TradingDay(i), IF i = source.active_at THEN 1 ELSE 0,
                     Example.prices[i])

\* lines 74-89: the state before the first row
InitLoop ==
    /\ dates = <<>> /\ actives = <<>> /\ closes = <<>> /\ slopes = <<>>
    /\ flags = <<>> /\ entry_signals = <<>> /\ exit_signals = <<>> /\ in_trades = <<>>
    /\ flag = 0
    /\ in_position = FALSE
    /\ entry_price = 0
    /\ entry_date = None
    /\ entry_type = "Slope"
    /\ rsi_just_activated = FALSE
    /\ prev_slope_active = FALSE
    /\ trades = <<>>

Init ==
    /\ \/ /\ source = [name |-> "drawn", active_at |-> 0]
          /\ slope_window \in Windows
          /\ pos_threshold \in PosThresholds
       \/ /\ source \in [name : {"example"}, active_at : 1 .. Len(Example.prices)]
          /\ slope_window = Example.window
          /\ pos_threshold = Example.threshold
    /\ signal_type \in SignalTypes
    /\ neg_threshold = DefaultNegThreshold
    /\ prior = NoPrior
    /\ args = NoArgs /\ result = NoResult
    /\ NoPool
    /\ InitLoop

Next == DrawnRow \/ ExampleRow

Spec == Init /\ [][Next]_vars

\* ---- two calls on the same series ------------------------------------------
\* Prologue with the loop state kept from the call before, as it would be
\* were it held outside the function
Prologue_kept ==
    /\ dates' = <<>> /\ actives' = <<>> /\ closes' = <<>> /\ slopes' = <<>>
    /\ flags' = <<>> /\ entry_signals' = <<>> /\ exit_signals' = <<>> /\ in_trades' = <<>>
    /\ trades' = <<>>
    /\ UNCHANGED <<flag, in_position, entry_price, entry_date, entry_type,
                   rsi_just_activated, prev_slope_active>>

\* lines 55-89: a call starts from fresh columns and fresh state variables
Prologue ==
    /\ dates' = <<>> /\ actives' = <<>> /\ closes' = <<>> /\ slopes' = <<>>
    /\ flags' = <<>> /\ entry_signals' = <<>> /\ exit_signals' = <<>> /\ in_trades' = <<>>
    /\ flag' = 0
    /\ in_position' = FALSE
    /\ entry_price' = 0
    /\ entry_date' = None
    /\ entry_type' = "Slope"
    /\ rsi_just_activated' = FALSE
    /\ prev_slope_active' = FALSE
    /\ trades' = <<>>

\* lines 201-207 and 34-89: the call returns what it has, and the function is
\* called again on the same series with the same slope_window, pos_threshold
\* and signal_type, and any neg_threshold
SecondCall ==
    /\ ~prior.called
    /\ Len(closes) > 0
    /\ Len(closes) <= MaxReplay
    /\ prior' = [called |-> TRUE, neg_threshold |-> neg_threshold,
                 dates |-> dates, actives |-> actives, closes |-> closes,
                 trades |-> trades, flags |-> flags, entry_signals |-> entry_signals,
                 exit_signals |-> exit_signals, in_trades |-> in_trades]
    /\ neg_threshold' \in NegThresholds
    /\ Prologue
    /\ UNCHANGED <<source, signal_type, slope_window, pos_threshold, args, result,
                   poolvars>>

\* a row of the second call: the row the first call read
ReplayRow ==
    /\ prior.called
    /\ Len(closes) < Len(prior.closes)
    /\ LET i == Len(closes) + 1
       IN  Iteration(prior.dates[i], prior.actives[i], prior.closes[i])

NextTwice == DrawnRow \/ ExampleRow \/ SecondCall \/ ReplayRow

SpecTwice == Init /\ [][NextTwice]_vars

\* ---- calls of single functions ---------------------------------------------
SeqsUpTo(S, n) == UNION {[1 .. k -> S] : k \in 0 .. n}

\* p[i] = a + b*i, i from 0
Linear(a, b, n) == [i \in 1 .. n |-> a + b * (i - 1)]

\* price series for calculate_slope: any short series, missing prices
\* included, and rising lines long enough for several windows
SlopeArgs ==
    [fn : {"calculate_slope"}, prices : SeqsUpTo(Prices \cup {3}, MaxSeries), window : 1 .. 3]
    \cup {[fn |-> "calculate_slope", prices |-> Linear(a, b, n), window |-> w] :
             a \in {1, 2, 100}, b \in {1, 2}, n \in 2 .. MaxSeries + 4, w \in {2, 3, 5}}

\* returns in percent: gains, losses, a total loss and a missing value
ReturnValues == {FracOf(10), FracOf(0 - 20), FracOf(5), FracOf(0 - 100), NaNFrac}
DrawdownArgs == [fn : {"calculate_max_drawdown"}, returns : SeqsUpTo(ReturnValues, MaxReturns)]

\* total returns whose multiplier has a square root among the fractions,
\* and years on both sides of 0
CagrArgs ==
    [fn : {"compute_cagr"},
     total_return_pct : {FracOf(0 - 150), FracOf(0 - 100), FracOf(0 - 75), FracOf(0),
                         FracOf(21), FracOf(300)},
     years : 0 - 1 .. 2]

\* trades around two turns of the year, some closed on the day they were
\* opened: a gain, a loss and a return that does not round to itself
TradeDays == {5, 8, 373, 374}
TradePrices == {<<1, 2>>, <<2, 1>>, <<3, 4>>}
TradeValues ==
    {TradeSignal(ed, xd, pp[1], pp[2], "Slope") :
        ed \in TradeDays, xd \in TradeDays, pp \in TradePrices}
TradeLists ==
    {ts \in SeqsUpTo(TradeValues, MaxTrades) :
        \A k \in 1 .. Len(ts) : ts[k].entry_date <= ts[k].exit_date}
MetricsArgs == [fn : {"calculate_performance_metrics", "compute_yearly_stats"}, trades : TradeLists]

\* the days around the cutover, with the return of the csv and the close of
\* the benchmark on each
CurveDays == LIVE_ENTRY_DATE - 2 .. LIVE_ENTRY_DATE + 1
DayIndex(d) == d - LIVE_ENTRY_DATE + 3
CsvReturns == << <<1, 10>>, <<0 - 1, 5>>, <<1, 4>>, <<0 - 1, 100000>> >>
SpyCloses == << <<400, 1>>, <<440, 1>>, <<420, 1>>, <<480, 1>> >>
\* frames sorted by date (equity.py 22, 31): any days of the csv, any days
\* of the benchmark
CsvFrames ==
    {[k \in 1 .. Cardinality(S) |->
         [Date |-> sorted(S)[k], Portfolio_Return |-> CsvReturns[DayIndex(sorted(S)[k])]]] :
       S \in SUBSET CurveDays}
SpyFrames ==
    {[k \in 1 .. Cardinality(S) |->
         [date |-> sorted(S)[k], close |-> SpyCloses[DayIndex(sorted(S)[k])]]] :
       S \in SUBSET CurveDays}
\* the broker's history: days from the eve of the cutover on, any of three
\* equities on each, one of them not positive
LiveEquities == {FracOf(0), FracOf(100), FracOf(200)}
AlpacaFrames ==
    UNION {{[k \in 1 .. Cardinality(S) |->
                [Date |-> sorted(S)[k], equity |-> e[sorted(S)[k]],
                 daily_return |-> <<1, 100>>]] :
              e \in [S -> LiveEquities]} :
           S \in SUBSET (LIVE_ENTRY_DATE - 1 .. LIVE_ENTRY_DATE + 1)}
StartDates == {None, LIVE_ENTRY_DATE - 1, LIVE_ENTRY_DATE + 1}
EndDates == {None, LIVE_ENTRY_DATE}
EquityArgs ==
    [fn : {"compute_equity_curve"}, csv_df : CsvFrames, alpaca : AlpacaFrames,
     spy_df : SpyFrames, start_date : StartDates, end_date : EndDates,
     initial_equity : {FracOf(50000)}]
VixEquityArgs ==
    [fn : {"compute_alpaca_vix_equity_curve"}, csv_df : CsvFrames,
     spy_df : SpyFrames, start_date : StartDates, end_date : EndDates,
     initial_equity : {FracOf(50000)}]

FnArgs ==
    SlopeArgs \cup DrawdownArgs \cup CagrArgs \cup MetricsArgs
    \cup EquityArgs \cup VixEquityArgs

Returned(v) == result' = [done |-> TRUE, value |-> v]

FnFrame ==
    UNCHANGED <<source, signal_type, slope_window, pos_threshold,
                dates, actives, closes, slopes,
                flags, entry_signals, exit_signals, in_trades,
                flag, in_position, entry_price, entry_date, entry_type,
                rsi_just_activated, prev_slope_active, trades,
                neg_threshold, prior, args, poolvars>>

CallSlope ==
    /\ args.fn = "calculate_slope" /\ ~result.done
    /\ Returned(calculate_slope_series(args.prices, args.window))
    /\ FnFrame

CallMaxDrawdown ==
    /\ args.fn = "calculate_max_drawdown" /\ ~result.done
    /\ Returned(calculate_max_drawdown(args.returns))
    /\ FnFrame

CallCagr ==
    /\ args.fn = "compute_cagr" /\ ~result.done
    /\ Returned(compute_cagr(args.total_return_pct, args.years))
    /\ FnFrame

CallMetrics ==
    /\ args.fn = "calculate_performance_metrics" /\ ~result.done
    /\ Returned(calculate_performance_metrics(args.trades))
    /\ FnFrame

CallYearlyStats ==
    /\ args.fn = "compute_yearly_stats" /\ ~result.done
    /\ Returned(compute_yearly_stats(args.trades))
    /\ FnFrame

CallEquityCurve ==
    /\ args.fn = "compute_equity_curve" /\ ~result.done
    /\ Returned(compute_equity_curve(args.csv_df, args.alpaca, args.spy_df,
                                     args.start_date, args.end_date, args.initial_equity))
    /\ FnFrame

CallVixEquityCurve ==
    /\ args.fn = "compute_alpaca_vix_equity_curve" /\ ~result.done
    /\ Returned(compute_alpaca_vix_equity_curve(args.csv_df, args.spy_df,
                                                args.start_date, args.end_date,
                                                args.initial_equity))
    /\ FnFrame

InitFn ==
    /\ source = [name |-> "none", active_at |-> 0]
    /\ signal_type = "Both"
    /\ slope_window = Example.window /\ pos_threshold = Example.threshold
    /\ neg_threshold = DefaultNegThreshold
    /\ prior = NoPrior
    /\ InitLoop
    /\ args \in FnArgs
    /\ result = NoResult
    /\ NoPool

NextFn ==
    \/ CallSlope \/ CallMaxDrawdown \/ CallCagr \/ CallMetrics \/ CallYearlyStats
    \/ CallEquityCurve \/ CallVixEquityCurve

SpecFn == InitFn /\ [][NextFn]_vars

\* ---- routers/analysis.py: the overview of all branches -------------------------
MaxBranches == 3
\* ThreadPoolExecutor(max_workers=8)
max_workers == 8

\* What the data directory holds for a branch: no trade log, a name without
\* a ticker, files that make the computation raise, or files from which
\* apply_slope_filter returns these trades: none, a loss, or a loss and a
\* gain. Two branches may hold the same trades and so have the same return.
BranchTrades ==
    {<<>>,
     <<TradeSignal(5, 8, 2, 1, "RSI")>>,
     <<TradeSignal(5, 8, 2, 1, "Slope"), TradeSignal(373, 374, 2, 5, "Slope")>>}
BranchFiles ==
    [kind : {"no_trade_log", "no_ticker", "raises"}, trades : {<<>>}]
    \cup [kind : {"data"}, trades : BranchTrades]

\* get_available_branches: the sorted names, here 1 .. n
AvailableBranches == {[k \in 1 .. n |-> k] : n \in 0 .. MaxBranches}
OverviewArgs(fn) ==
    UNION {[fn : {fn}, branches : {bs}, files : [1 .. Len(bs) -> BranchFiles]] :
              bs \in AvailableBranches}

\* what a call gives: a value, or an exception
Returns(v) == [raised |-> FALSE, value |-> v]
Raises == [raised |-> TRUE, value |-> PyNone]

\* lines 303-330: the dict of a branch with trades, but for the name of the
\* branch. cagr and sharpe, roots of fractions, are left out of it.
overview_dict(metrics, first_entry, last_exit) ==
    [ticker |-> "T",
     branch |-> 0,
     period |-> <<date_str(first_entry), date_str(last_exit)>>,
     return_pct |-> metrics.total_return,
     win_rate |-> metrics.win_rate,
     max_drawdown |-> metrics.max_drawdown,
     trades |-> metrics.num_trades,
     time_in_market |-> metrics.time_in_market]

\* lines 300-302
no_metrics(metrics) == IF metrics = PyNone THEN TRUE ELSE metrics.num_trades = 0

\* lines 283-330: the body of _compute_branch_overview_cached
overview_of(file) ==
    IF file.kind = "no_trade_log" \/ file.kind = "no_ticker" THEN Returns(PyNone)
    ELSE IF file.kind = "raises" THEN Raises
    ELSE IF no_metrics(calculate_performance_metrics(file.trades)) THEN Returns(PyNone)
    ELSE Returns(overview_dict(
             calculate_performance_metrics(file.trades),
             min_date([k \in 1 .. Len(file.trades) |-> file.trades[k].entry_date]),
             max_date([k \in 1 .. Len(file.trades) |-> file.trades[k].exit_date])))

\* the same for every file of the directory, worked out once
Overviews == {[file |-> file, outcome |-> overview_of(file)] : file \in BranchFiles}

\* line 320: "branch": branch
named(outcome, branch) ==
    IF outcome.raised THEN outcome
    ELSE IF outcome.value = PyNone THEN outcome
    ELSE Returns([outcome.value EXCEPT !.branch = branch])

\* lines 276-330: _compute_branch_overview_cached, uncached
compute_branch_overview(branch, file) ==
    named((CHOOSE o \in Overviews : o.file = file).outcome, branch)

\* line 276, lru_cache: a call answered from the cache, or computed and,
\* unless it raised, kept. maxsize is 50, more than the branches of a run.
cached_call(c, branch, file) ==
    IF branch \in DOMAIN c THEN Returns(c[branch]) ELSE compute_branch_overview(branch, file)
cache_after(c, branch, outcome) ==
    IF outcome.raised \/ branch \in DOMAIN c THEN c
    ELSE [b \in DOMAIN c \cup {branch} |-> IF b = branch THEN outcome.value ELSE c[b]]

\* the cache an earlier run with the same parameters left behind
WarmCache(a) ==
    [b \in {x \in 1 .. Len(a.branches) : ~compute_branch_overview(x, a.files[x]).raised} |->
        compute_branch_overview(b, a.files[b]).value]

\* the sort without reverse=True
sort_by_return_pct_ascending(ovs) ==
    LET key(i) == ovs[i].return_pct
        place(i) ==
            1 + Cardinality({j \in 1 .. Len(ovs) :
                               \/ key(j)[1] * key(i)[2] < key(i)[1] * key(j)[2]
                               \/ j < i /\ key(j)[1] * key(i)[2] = key(i)[1] * key(j)[2]})
    IN  [p \in 1 .. Len(ovs) |-> ovs[CHOOSE i \in 1 .. Len(ovs) : place(i) = p]]

\* lines 366 and 420, overviews.sort(key=return_pct, reverse=True): stable,
\* so an overview comes behind those of a higher return and behind those of
\* the same return that were appended before it. The keys are returns
\* rounded to two decimals, fractions of a positive denominator.
sort_by_return_pct(ovs) ==
    LET key(i) == ovs[i].return_pct
        place(i) ==
            1 + Cardinality({j \in 1 .. Len(ovs) :
                               \/ key(j)[1] * key(i)[2] > key(i)[1] * key(j)[2]
                               \/ j < i /\ key(j)[1] * key(i)[2] = key(i)[1] * key(j)[2]})
    IN  [p \in 1 .. Len(ovs) |-> ovs[CHOOSE i \in 1 .. Len(ovs) : place(i) = p]]

\* lines 359-364 and 413-418: what the loop keeps of a finished future
collect(ovs, outcome) ==
    IF ~outcome.raised /\ outcome.value # PyNone THEN Append(ovs, outcome.value) ELSE ovs

OverviewFns == {"get_overview_analysis", "get_overview_analysis_stream"}
Submitted == Len(futures) = Len(args.branches)
Running == {i \in 1 .. Len(futures) : futures[i].state = "running"}
Unyielded == {i \in 1 .. Len(futures) : ~futures[i].yielded}

PoolFrame ==
    UNCHANGED <<source, signal_type, slope_window, pos_threshold,
                dates, actives, closes, slopes,
                flags, entry_signals, exit_signals, in_trades,
                flag, in_position, entry_price, entry_date, entry_type,
                rsi_just_activated, prev_slope_active, trades,
                neg_threshold, prior, args>>

\* lines 347-356 and 391-401: executor.submit, one branch after the other
Submit ==
    /\ args.fn \in OverviewFns
    /\ ~Submitted
    /\ futures' = Append(futures, [branch |-> args.branches[Len(futures) + 1],
                                   state |-> "pending", outcome |-> Returns(PyNone),
                                   yielded |-> FALSE])
    /\ UNCHANGED <<cache, overviews, completed, events, result>>
    /\ PoolFrame

\* a free worker thread takes the oldest work item of the queue
WorkerStart ==
    /\ args.fn \in OverviewFns
    /\ Cardinality(Running) < max_workers
    /\ \E i \in 1 .. Len(futures) :
           /\ futures[i].state = "pending"
           /\ \A j \in 1 .. i - 1 : futures[j].state # "pending"
           /\ futures' = [futures EXCEPT ![i].state = "running"]
    /\ UNCHANGED <<cache, overviews, completed, events, result>>
    /\ PoolFrame

\* a worker thread ends its call of _compute_branch_overview_cached
WorkerReturn ==
    /\ args.fn \in OverviewFns
    /\ \E i \in 1 .. Len(futures) :
           LET branch == futures[i].branch
               outcome == cached_call(cache, branch, args.files[branch])
           IN  /\ futures[i].state = "running"
               /\ futures' = [futures EXCEPT ![i].state = "finished", ![i].outcome = outcome]
               /\ cache' = cache_after(cache, branch, outcome)
    /\ UNCHANGED <<overviews, completed, events, result>>
    /\ PoolFrame

\* lines 358-364: one turn of the loop over as_completed(futures)
OverviewNext ==
    /\ args.fn = "get_overview_analysis"
    /\ Submitted
    /\ \E i \in 1 .. Len(futures) :
           /\ futures[i].state = "finished" /\ ~futures[i].yielded
           /\ futures' = [futures EXCEPT ![i].yielded = TRUE]
           /\ overviews' = collect(overviews, futures[i].outcome)
    /\ UNCHANGED <<cache, completed, events, result>>
    /\ PoolFrame

\* lines 366-368
OverviewReturn ==
    /\ args.fn = "get_overview_analysis"
    /\ Submitted /\ Unyielded = {}
    /\ ~result.done
    /\ overviews' = sort_by_return_pct(overviews)
    /\ Returned([branches |-> overviews'])
    /\ UNCHANGED <<cache, futures, completed, events>>
    /\ PoolFrame

\* line 409: round(completed / total * 100, 1), worked out once
percent ==
    [current \in 1 .. MaxBranches, total \in 1 .. MaxBranches |->
        Round(FracMul(FracDiv(FracOf(current), FracOf(total)), FracOf(100)), 1)]

\* lines 405-410
progress_data(current, total, branch) ==
    [type |-> "progress", current |-> current, total |-> total, branch |-> branch,
     percent |-> percent[current, total]]

\* the progress event sent only for a branch that yields an overview
StreamNext_onsuccess ==
    /\ args.fn = "get_overview_analysis_stream"
    /\ Submitted
    /\ \E i \in 1 .. Len(futures) :
           /\ futures[i].state = "finished" /\ ~futures[i].yielded
           /\ futures' = [futures EXCEPT ![i].yielded = TRUE]
           /\ overviews' = collect(overviews, futures[i].outcome)
           /\ completed' = IF overviews' # overviews THEN completed + 1 ELSE completed
           /\ events' = IF overviews' # overviews
                        THEN Append(events, progress_data(completed + 1, Len(args.branches),
                                                          futures[i].branch))
                        ELSE events
    /\ UNCHANGED <<cache, result>>
    /\ PoolFrame

\* lines 403-418: one turn of the loop over as_completed(future_to_branch)
StreamNext ==
    /\ args.fn = "get_overview_analysis_stream"
    /\ Submitted
    /\ \E i \in 1 .. Len(futures) :
           /\ futures[i].state = "finished" /\ ~futures[i].yielded
           /\ futures' = [futures EXCEPT ![i].yielded = TRUE]
           /\ completed' = completed + 1
           /\ events' = Append(events, progress_data(completed + 1, Len(args.branches),
                                                     futures[i].branch))
           /\ overviews' = collect(overviews, futures[i].outcome)
    /\ UNCHANGED <<cache, result>>
    /\ PoolFrame

\* lines 420-427: the last event, and the end of the generator
StreamComplete ==
    /\ args.fn = "get_overview_analysis_stream"
    /\ Submitted /\ Unyielded = {}
    /\ ~result.done
    /\ overviews' = sort_by_return_pct(overviews)
    /\ events' = Append(events, [type |-> "complete", branches |-> overviews'])
    /\ Returned(events')
    /\ UNCHANGED <<cache, futures, completed>>
    /\ PoolFrame

\* a request, the cache empty or left by an earlier request
InitPool(fn) ==
    /\ source = [name |-> "none", active_at |-> 0]
    /\ signal_type = "Both"
    /\ slope_window = Example.window /\ pos_threshold = Example.threshold
    /\ neg_threshold = DefaultNegThreshold
    /\ prior = NoPrior
    /\ InitLoop
    /\ args \in OverviewArgs(fn)
    /\ result = NoResult
    /\ cache \in {<<>>, WarmCache(args)}
    /\ futures = <<>> /\ overviews = <<>> /\ completed = 0 /\ events = <<>>

InitOverview == InitPool("get_overview_analysis")
NextOverview == Submit \/ WorkerStart \/ WorkerReturn \/ OverviewNext \/ OverviewReturn
SpecOverview == InitOverview /\ [][NextOverview]_vars

\* the stream: every thread is scheduled, every call ends, and the client
\* reads the stream to its end
InitStream == InitPool("get_overview_analysis_stream")
NextStream == Submit \/ WorkerStart \/ WorkerReturn \/ StreamNext \/ StreamComplete
SpecStream ==
    /\ InitStream /\ [][NextStream]_vars
    /\ WF_vars(Submit) /\ WF_vars(WorkerStart) /\ WF_vars(WorkerReturn)
    /\ WF_vars(StreamNext) /\ WF_vars(StreamComplete)

\* ---- what the claims speak of ------------------------------------------------
\* the row the step reads, and whether the step reads a row with a slope
NewRow == Len(closes')
ReadsDefinedRow == Len(closes') = Len(closes) + 1 /\ ~IsNaN(slopes'[Len(closes')])
EntryFires == entry_signals'[NewRow] = 1
ExitFires == exit_signals'[NewRow] = 1
Above(i) == FracGt(slopes'[i], pos_threshold)
\* the slope of the last row before row i that has a slope was above the threshold
PrevAbove(i) ==
    LET D == {j \in 1 .. i - 1 : ~IsNaN(slopes'[j])}
    IN  D # {} /\ Above(CHOOSE j \in D : \A k \in D : k <= j)
\* the latch was set on this very row
LatchedNow == actives'[NewRow] = 1 /\ flag = 0

\* C1: mode Both, a row with a slope: a position opens iff not in a position
\* and (a) the latch was set on this row and slope > pos_threshold, type "RSI",
\* or (b) flag is set and the slope crossed from not-above to above, type
\* "Slope"; (a) wins when both hold.
C1_BothEntry ==
    [][(signal_type = "Both" /\ ReadsDefinedRow) =>
         LET a == LatchedNow /\ Above(NewRow)
             b == (flag = 1 \/ LatchedNow) /\ ~PrevAbove(NewRow) /\ Above(NewRow)
         IN  /\ EntryFires <=> (~in_position /\ (a \/ b))
             /\ EntryFires <=> (~in_position /\ in_position')
             /\ EntryFires => entry_type' = (IF a THEN "RSI" ELSE "Slope")]_vars

C1_Witness ==
    /\ signal_type = "Both" /\ in_position /\ entry_type = "Slope"
    /\ Len(closes) > slope_window
    /\ entry_signals[Len(closes)] = 1
    /\ IsNaN(slopes[Len(closes) - 1])

\* C2: mode Both, a row with a slope: an exit fires iff in a position at the
\* start of the row and the slope has just deactivated; the exit sets flag to
\* 0 and the Flag column of the row holds 0.
C2_BothExit ==
    [][(signal_type = "Both" /\ ReadsDefinedRow) =>
         /\ ExitFires <=> (in_position /\ PrevAbove(NewRow) /\ ~Above(NewRow))
         /\ ExitFires <=> (in_position /\ ~in_position')
         /\ ExitFires => (flag' = 0 /\ flags'[NewRow] = 0)]_vars

C2_Witness ==
    /\ signal_type = "Both" /\ ~in_position /\ flag = 0
    /\ Len(closes) > 0 /\ exit_signals[Len(closes)] = 1 /\ actives[Len(closes)] = 1

\* C3: mode RSI, a row with a slope: an entry of type "RSI" fires iff not in a
\* position and Active = 1, an exit fires iff in a position and Active = 0,
\* whatever the slope and the threshold.
C3_RsiOnly ==
    [][(signal_type = "RSI" /\ ReadsDefinedRow) =>
         /\ EntryFires <=> (~in_position /\ actives'[NewRow] = 1)
         /\ EntryFires <=> (~in_position /\ in_position')
         /\ EntryFires => entry_type' = "RSI"
         /\ ExitFires <=> (in_position /\ actives'[NewRow] = 0)
         /\ ExitFires <=> (in_position /\ ~in_position')]_vars

C3_Witness ==
    /\ signal_type = "RSI" /\ in_position /\ Len(trades) = 1
    /\ ~FracGt(slopes[Len(closes)], pos_threshold) /\ ~IsNaN(slopes[Len(closes)])
    /\ entry_signals[Len(closes)] = 1

\* C4: mode Slope, a row with a slope: an entry of type "Slope" fires iff not
\* in a position and slope > pos_threshold, an exit fires iff in a position and
\* slope <= pos_threshold, whatever Active is.
C4_SlopeOnly ==
    [][(signal_type = "Slope" /\ ReadsDefinedRow) =>
         LET s == slopes'[NewRow]
             gt == s[1] > pos_threshold * s[2]
         IN  /\ EntryFires <=> (~in_position /\ gt)
             /\ EntryFires <=> (~in_position /\ in_position')
             /\ EntryFires => entry_type' = "Slope"
             /\ ExitFires <=> (in_position /\ ~gt)
             /\ ExitFires <=> (in_position /\ ~in_position')]_vars

C4_Witness ==
    /\ signal_type = "Slope" /\ ~in_position /\ Len(trades) = 1
    /\ Len(closes) > 0 /\ exit_signals[Len(closes)] = 1
    /\ FracEq(slopes[Len(closes)], <<pos_threshold, 1>>)
    /\ \A i \in 1 .. Len(closes) : actives[i] = 0

\* C5 as stated: the example series with the oscillator active at index 0
\* only, window 5, threshold 0, mode Both, gives exactly one trade, of type
\* "RSI", entered at index 4 and left on a row after the peak at index 7 whose
\* slope is not positive.
ExampleDone(k) ==
    /\ source = [name |-> "example", active_at |-> k]
    /\ signal_type = "Both"
    /\ Len(closes) = Len(Example.prices)

C5_OneTradeAsStated ==
    ExampleDone(1) =>
        /\ Len(trades) = 1
        /\ trades[1].entry_type = "RSI"
        /\ trades[1].entry_date = dates[5]
        /\ \E j \in 9 .. Len(closes) :
               trades[1].exit_date = dates[j] /\ ~FracGt(slopes[j], pos_threshold)

\* C5 amended: with the oscillator active at index 0 only the call returns no
\* trade, no entry and a Flag column of zeros (row 0 has no slope and is
\* skipped before the latch); with the oscillator active at index 4 only it
\* returns exactly the trade of the claim, entered at index 4, left at index 9.
C5_ExampleTrades ==
    /\ ExampleDone(1) =>
           /\ trades = <<>>
           /\ \A i \in 1 .. Len(closes) : entry_signals[i] = 0 /\ flags[i] = 0
    /\ ExampleDone(5) =>
           /\ Len(trades) = 1
           /\ trades[1].entry_type = "RSI"
           /\ trades[1].entry_date = dates[5] /\ trades[1].entry_price = 108
           /\ trades[1].exit_date = dates[10] /\ trades[1].exit_price = 108
           /\ FracGt(slopes[9], pos_threshold) /\ ~FracGt(slopes[10], pos_threshold)

C5_Witness == ExampleDone(1) /\ actives[1] = 1 /\ IsNaN(slopes[1]) /\ ~in_position

\* C6: mode Both: an entry of type "Slope" fires only on a row before which
\* flag was 1, set by the oscillator on an earlier row with a slope and not
\* cleared by an exit since.
C6_SlopeEntryGated ==
    [][(signal_type = "Both" /\ ReadsDefinedRow /\ EntryFires /\ entry_type' = "Slope") =>
         /\ flag = 1
         /\ \E j \in 1 .. NewRow - 1 :
               /\ actives[j] = 1 /\ ~IsNaN(slopes[j])
               /\ \A k \in j .. NewRow - 1 : exit_signals[k] = 0 /\ flags[k] = 1]_vars

C6_Witness ==
    /\ signal_type = "Both" /\ in_position /\ entry_type = "Slope"
    /\ entry_signals[Len(closes)] = 1
    /\ Len(trades) = 1

\* the rows of the trades: the exit rows, the entry row of an exit row, the
\* exit rows whose entry price is not zero, in row order
ExitRows == {j \in 1 .. Len(closes) : exit_signals[j] = 1}
EntryRows == {i \in 1 .. Len(closes) : entry_signals[i] = 1}
EntryRowOf(j) ==
    LET E == {i \in EntryRows : i < j} IN CHOOSE i \in E : \A k \in E : k <= i
RecordedExits == {j \in ExitRows : closes[EntryRowOf(j)] # 0}
NthRecordedExit(k) ==
    CHOOSE j \in RecordedExits : Cardinality({x \in RecordedExits : x < j}) = k - 1

\* C7: every trade has the Close and Date of its entry row and of its exit
\* row, exit_date >= entry_date, return_pct = (exit_price - entry_price) /
\* entry_price * 100 and days_held = the calendar days between the two dates.
C7_TradeFields ==
    \A k \in 1 .. Len(trades) :
        /\ k <= Cardinality(RecordedExits)
        /\ LET j == NthRecordedExit(k)
               i == EntryRowOf(j)
               t == trades[k]
           IN  /\ t.entry_price = closes[i] /\ t.entry_date = dates[i]
               /\ t.exit_price = closes[j] /\ t.exit_date = dates[j]
               /\ t.exit_date >= t.entry_date
               /\ IF closes[i] = NaN \/ closes[j] = NaN
                  THEN IsNaN(t.return_pct)
                  ELSE /\ ~IsNaN(t.return_pct)
                       /\ t.return_pct[1] * closes[i]
                              = (closes[j] - closes[i]) * 100 * t.return_pct[2]
               /\ t.days_held = dates[j] - dates[i]

\* a losing trade held over a weekend: one row, three calendar days
C7_Witness ==
    /\ Len(trades) = 1
    /\ trades[1].days_held = 3
    /\ \E i \in EntryRows : i + 1 \in ExitRows
    /\ FracLe(trades[1].return_pct, 0 - 50)

\* C8: with strictly increasing dates the trades are chronological and do not
\* overlap: exit_date after entry_date, entry_date after the exit_date of the
\* trade before.
StrictDates == \A i \in 1 .. Len(dates) - 1 : dates[i] < dates[i + 1]

C8_Chronological ==
    StrictDates =>
        \A k \in 1 .. Len(trades) :
            /\ trades[k].exit_date > trades[k].entry_date
            /\ k > 1 => trades[k].entry_date > trades[k - 1].exit_date

C8_Witness == Len(trades) = 2 /\ StrictDates /\ signal_type = "Both"

\* C9: the trades are the exits whose entry price is not zero, one each; an
\* entry without a later exit gives no trade and no Exit_Signal.
C9_OpenPositionNoTrade ==
    /\ Len(trades) = Cardinality(RecordedExits)
    /\ Cardinality(ExitRows) = Cardinality(EntryRows) - (IF in_position THEN 1 ELSE 0)
    /\ in_position =>
           /\ EntryRows # {}
           /\ \A j \in ExitRows : \E i \in EntryRows : j < i

C9_Witness ==
    /\ in_position /\ Len(trades) = 1
    /\ Cardinality(EntryRows) = 2
    /\ entry_signals[Len(closes)] = 0

\* C10: an exit of a position entered at price 0 appends no trade and closes
\* the position: in_position false, Exit_Signal 1 on the row, flag 0 in mode
\* Both.
C10_ZeroEntryPrice ==
    [][(ReadsDefinedRow /\ ExitFires /\ entry_price = 0) =>
         /\ trades' = trades
         /\ in_position /\ ~in_position'
         /\ signal_type = "Both" => (flag' = 0 /\ flags'[NewRow] = 0)]_vars

\* ... and a later entry has fired
C10_Witness ==
    /\ signal_type = "Both" /\ in_position /\ trades = <<>>
    /\ ExitRows # {}
    /\ entry_signals[Len(closes)] = 1 /\ entry_type = "RSI"

\* C11: a second call on the same series with the same slope_window,
\* pos_threshold and signal_type returns the trades and the Flag,
\* Entry_Signal, Exit_Signal and InTrade columns of the first call, whatever
\* the first call left in flag, in_position, the entry fields and
\* prev_slope_active, and whatever neg_threshold is.
SecondCallDone == prior.called /\ Len(closes) = Len(prior.closes)

C11_Idempotent ==
    SecondCallDone =>
        /\ trades = prior.trades
        /\ flags = prior.flags
        /\ entry_signals = prior.entry_signals
        /\ exit_signals = prior.exit_signals
        /\ in_trades = prior.in_trades

\* the first call ended in a position with the flag set, the second has
\* another neg_threshold
C11_Witness ==
    /\ SecondCallDone
    /\ neg_threshold # prior.neg_threshold
    /\ Len(closes) > slope_window
    /\ in_position /\ flag = 1 /\ prev_slope_active
    /\ Len(trades) = 1

\* C12: calculate_slope returns a series of the length of its input whose
\* first w-1 values are NaN; for w >= 2 the value at a later index is defined
\* when the w prices of its window are all present, and NaN when one is
\* missing and the window's first price is not 0; for w = 1 the value is NaN
\* wherever the price is not 0.
SlopeCalled == args.fn = "calculate_slope" /\ result.done
WindowHasNaN(prices, i, window) ==
    \E x \in 0 .. window - 1 : WindowAt(prices, i, window, x) = NaN

\* as stated: exactly the first w-1 values are NaN
C12_ExactlyLeadingNaN ==
    SlopeCalled =>
        /\ Len(result.value) = Len(args.prices)
        /\ \A i \in 1 .. Len(args.prices) : IsNaN(result.value[i]) <=> i < args.window

C12_SlopeDefined ==
    SlopeCalled =>
        LET prices == args.prices
            w == args.window
            out == result.value
        IN  /\ Len(out) = Len(prices)
            /\ \A i \in 1 .. Len(prices) :
                 /\ i < w => IsNaN(out[i])
                 /\ (i >= w /\ w >= 2 /\ ~WindowHasNaN(prices, i, w)) => ~IsNaN(out[i])
                 /\ (i >= w /\ WindowAt(prices, i, w, 0) # 0
                       /\ (w = 1 \/ WindowHasNaN(prices, i, w))) => IsNaN(out[i])
                 /\ (i >= w /\ WindowAt(prices, i, w, 0) = 0) => out[i] = <<0, 1>>

\* a series longer than the window with a missing price behind the padding
C12_Witness ==
    /\ SlopeCalled
    /\ args.window = 2 /\ Len(args.prices) = 4
    /\ args.prices[3] = NaN /\ args.prices[1] = 1 /\ args.prices[2] = 2 /\ args.prices[4] = 2
    /\ IsNaN(result.value[1]) /\ ~IsNaN(result.value[2])
    /\ IsNaN(result.value[3]) /\ IsNaN(result.value[4])

\* C13: on a rising line p[i] = a + b*i (a > 0, b > 0) every defined slope
\* is positive and equals b * (w-1) / (first price of the window) * 100, so
\* it falls from each index to the next.
IsRisingLine(prices) ==
    /\ Len(prices) >= 2
    /\ \A i \in 1 .. Len(prices) : prices[i] # NaN
    /\ prices[1] > 0 /\ prices[2] > prices[1]
    /\ \A i \in 1 .. Len(prices) - 1 : prices[i + 1] - prices[i] = prices[2] - prices[1]
LineCalled == SlopeCalled /\ IsRisingLine(args.prices) /\ args.window >= 2
DefinedAt == {i \in 1 .. Len(result.value) : ~IsNaN(result.value[i])}
SlopeOut(i) == Frac(result.value[i][1], result.value[i][2])

\* as stated: one value at every index with a defined slope
C13_ConstantSlope ==
    LineCalled =>
        \A i \in DefinedAt :
            /\ FracGt(SlopeOut(i), 0)
            /\ \A j \in DefinedAt : FracEq(SlopeOut(i), SlopeOut(j))

C13_LinearSlope ==
    LineCalled =>
        LET b == args.prices[2] - args.prices[1]
            w == args.window
        IN  /\ DefinedAt = {i \in 1 .. Len(args.prices) : i >= w}
            /\ \A i \in DefinedAt :
                 /\ FracGt(SlopeOut(i), 0)
                 /\ FracEq(SlopeOut(i), <<b * (w - 1) * 100, args.prices[i - w + 1]>>)
                 /\ (i + 1) \in DefinedAt => FracLt(SlopeOut(i + 1), SlopeOut(i))

\* the line 100, 102, ... with window 5: 8 at index 4, 400/51 at index 5
C13_Witness ==
    /\ LineCalled
    /\ args.prices[1] = 100 /\ args.prices[2] = 102 /\ args.window = 5
    /\ Len(args.prices) >= 6
    /\ FracEq(SlopeOut(5), <<8, 1>>)
    /\ FracEq(SlopeOut(6), <<400, 51>>)

\* C15: calculate_max_drawdown returns 0 for an empty array; when no return
\* is missing and no running maximum is 0 it returns the smallest, over the
\* prefixes, of (equity / largest equity so far - 1) * 100, equity being the
\* product of the (1 + r/100) so far; 10, -20, 5 give the equities 1.10,
\* 0.88, 0.924 and the result -20.
DrawdownCalled == args.fn = "calculate_max_drawdown" /\ result.done
RECURSIVE EquityAt(_, _)
EquityAt(rs, k) ==
    IF k = 0 THEN <<1, 1>>
    ELSE LET e == EquityAt(rs, k - 1)
         IN  Frac(e[1] * (100 * rs[k][2] + rs[k][1]), e[2] * 100 * rs[k][2])
PeakAt(rs, k) ==
    CHOOSE e \in {EquityAt(rs, j) : j \in 1 .. k} :
        \A j \in 1 .. k : ~FracLt(e, EquityAt(rs, j))
\* e / m - 1 in percent, e / m reduced before it is multiplied out
DrawdownAt(rs, k) ==
    LET e == EquityAt(rs, k)
        m == PeakAt(rs, k)
        gn == GCD(Abs(e[1]), Abs(m[1]))
        gd == GCD(e[2], m[2])
        qn == (e[1] \div gn) * (m[2] \div gd)
        qd == (e[2] \div gd) * (m[1] \div gn)
    IN  Frac((qn - qd) * 100, qd)
Plain(rs) ==
    /\ \A k \in 1 .. Len(rs) : ~IsNaN(rs[k])
    /\ \A k \in 1 .. Len(rs) : PeakAt(rs, k)[1] # 0

C15_MaxDrawdown ==
    DrawdownCalled =>
        LET rs == args.returns
        IN  /\ rs = <<>> => result.value = <<0, 1>>
            /\ (rs # <<>> /\ Plain(rs)) =>
                  /\ \E k \in 1 .. Len(rs) : FracEq(result.value, DrawdownAt(rs, k))
                  /\ \A k \in 1 .. Len(rs) : ~FracLt(DrawdownAt(rs, k), result.value)
            /\ rs = <<FracOf(10), FracOf(0 - 20), FracOf(5)>> =>
                  /\ cumprod(<<<<11, 10>>, <<4, 5>>, <<21, 20>>>>)
                        = <<<<11, 10>>, <<22, 25>>, <<231, 250>>>>
                  /\ EquityAt(rs, 1) = <<11, 10>>
                  /\ EquityAt(rs, 2) = <<22, 25>>
                  /\ EquityAt(rs, 3) = <<231, 250>>
                  /\ result.value = <<0 - 20, 1>>

C15_Witness ==
    /\ DrawdownCalled
    /\ args.returns = <<FracOf(10), FracOf(0 - 20), FracOf(5)>>
    /\ result.value = <<0 - 20, 1>>

\* C16: compute_cagr returns 0 whenever years <= 0, whatever the total
\* return, and with years > 0 returns -100 whenever 1 + total_return_pct/100
\* is not positive.
CagrCalled == args.fn = "compute_cagr" /\ result.done
FullLoss == args.total_return_pct[1] + 100 * args.total_return_pct[2] <= 0

C16_CagrGuards ==
    CagrCalled =>
        /\ args.years <= 0 => result.value = <<0, 1>>
        /\ (args.years > 0 /\ FullLoss) => result.value = <<0 - 100, 1>>

\* the floor: -150 percent over one year
C16_Witness ==
    /\ CagrCalled
    /\ args.total_return_pct = <<0 - 150, 1>> /\ args.years = 1
    /\ result.value = <<0 - 100, 1>>

\* C14: calculate_performance_metrics returns None exactly for the empty
\* trade list, and for every other list a record whose num_trades is the
\* length of the list.
MetricsCalled == args.fn = "calculate_performance_metrics" /\ result.done

C14_NoneIffEmpty ==
    MetricsCalled =>
        /\ result.value = PyNone <=> args.trades = <<>>
        /\ args.trades # <<>> => result.value.num_trades = Len(args.trades)

C14_Witness ==
    /\ MetricsCalled
    /\ Len(args.trades) = 2
    /\ result.value # PyNone /\ result.value.num_trades = 2

\* C17: compute_yearly_stats has one entry per year in which a trade was
\* closed, in ascending order of the years; the entry of a year counts the
\* trades closed in it, so the counts add up to the number of trades, and
\* its max_drawdown is that of the returns of these trades alone.
YearlyCalled == args.fn = "compute_yearly_stats" /\ result.done
ExitYears == {YearOf(args.trades[k].exit_date) : k \in 1 .. Len(args.trades)}
ClosedIn(y) == {k \in 1 .. Len(args.trades) : YearOf(args.trades[k].exit_date) = y}
RECURSIVE ReturnsOf(_, _)
ReturnsOf(ts, y) ==
    IF ts = <<>> THEN <<>>
    ELSE (IF YearOf(Head(ts).exit_date) = y THEN <<Head(ts).return_pct>> ELSE <<>>)
         \o ReturnsOf(Tail(ts), y)

C17_ByExitYear ==
    YearlyCalled =>
        LET out == result.value
        IN  /\ {out[n].year : n \in 1 .. Len(out)} = ExitYears
            /\ Len(out) = Cardinality(ExitYears)
            /\ \A n \in 1 .. Len(out) - 1 : out[n].year < out[n + 1].year
            /\ \A n \in 1 .. Len(out) :
                 /\ out[n].trades = Cardinality(ClosedIn(out[n].year))
                 /\ out[n].max_drawdown
                      = Round(calculate_max_drawdown(ReturnsOf(args.trades, out[n].year)), 2)
            /\ Sum([n \in 1 .. Len(out) |-> out[n].trades]) = Len(args.trades)

\* a trade opened in 2023 and closed in 2025 listed before one closed in
\* 2024: two entries, 2024 first
C17_Witness ==
    /\ YearlyCalled
    /\ Len(args.trades) = 2
    /\ args.trades[1].entry_date = 5 /\ args.trades[1].exit_date = 374
    /\ args.trades[2].entry_date = 8 /\ args.trades[2].exit_date = 373
    /\ Len(result.value) = 2
    /\ result.value[1].year = 2024 /\ result.value[2].year = 2025

\* C18: time_in_market is the sum of days_held over the days from the
\* earliest entry_date to the latest exit_date, times 100, and 0 when that
\* span is 0; total_return is the sum of the return_pct; both rounded to two
\* decimals.
SumOfDays == Sum([k \in 1 .. Len(args.trades) |-> args.trades[k].days_held])
FirstEntry ==
    CHOOSE d \in {args.trades[k].entry_date : k \in 1 .. Len(args.trades)} :
        \A k \in 1 .. Len(args.trades) : d <= args.trades[k].entry_date
LastExit ==
    CHOOSE d \in {args.trades[k].exit_date : k \in 1 .. Len(args.trades)} :
        \A k \in 1 .. Len(args.trades) : d >= args.trades[k].exit_date
RECURSIVE SumOfReturns(_)
SumOfReturns(k) ==
    IF k = 0 THEN <<0, 1>>
    ELSE LET r == args.trades[k].return_pct
             before == SumOfReturns(k - 1)
         IN  Frac(before[1] * r[2] + r[1] * before[2], before[2] * r[2])

C18_TimeInMarket ==
    (MetricsCalled /\ args.trades # <<>>) =>
        /\ LastExit - FirstEntry = 0 => result.value.time_in_market = <<0, 1>>
        /\ LastExit - FirstEntry > 0 =>
              result.value.time_in_market = Round(<<SumOfDays * 100, LastExit - FirstEntry>>, 2)
        /\ result.value.total_return = Round(SumOfReturns(Len(args.trades)), 2)

\* a trade closed on the day it was opened: 33.33 percent, no time in market
C18_Witness ==
    /\ MetricsCalled
    /\ Len(args.trades) = 1
    /\ args.trades[1].entry_date = args.trades[1].exit_date
    /\ args.trades[1].entry_price = 3 /\ args.trades[1].exit_price = 4
    /\ result.value.time_in_market = <<0, 1>>
    /\ result.value.total_return = <<3333, 100>>

\* C19: in the points of compute_equity_curve a point is live exactly when
\* its date is on or after the cutover; when the broker's history has a row
\* on or after the cutover and the first such row has a positive equity,
\* every live point is that row's equity times last primary equity / first
\* live equity, so the point of the first live row has the equity of the
\* last point before the cutover (the initial equity when there is none).
EquityCalled == args.fn = "compute_equity_curve" /\ result.done
Points == result.value.data
DayOfPoint(n) == CHOOSE d \in CurveDays : date_str(d) = Points[n].date
PrimaryRows == {k \in 1 .. Len(args.csv_df) : args.csv_df[k].Date < LIVE_ENTRY_DATE}
RECURSIVE PrimaryGrowth(_)
PrimaryGrowth(k) ==
    IF k = 0 THEN <<1, 1>>
    ELSE LET g == PrimaryGrowth(k - 1)
             r == args.csv_df[k].Portfolio_Return
         IN  IF k \in PrimaryRows THEN Frac(g[1] * (r[2] + r[1]), g[2] * r[2]) ELSE g
LastPrimaryEquity ==
    LET g == PrimaryGrowth(Len(args.csv_df))
    IN  Frac(g[1] * args.initial_equity[1], g[2] * args.initial_equity[2])
LastPrimaryDay ==
    CHOOSE d \in {args.csv_df[k].Date : k \in PrimaryRows} :
        \A k \in PrimaryRows : args.csv_df[k].Date <= d
LiveRows == {k \in 1 .. Len(args.alpaca) : args.alpaca[k].Date >= LIVE_ENTRY_DATE}
FirstLive == CHOOSE k \in LiveRows : \A j \in LiveRows : k <= j
LiveRowOf(n) == CHOOSE k \in LiveRows : args.alpaca[k].Date = DayOfPoint(n)
Rescaled(e) ==
    LET first == args.alpaca[FirstLive].equity
        last == LastPrimaryEquity
    IN  Frac(e[1] * last[1] * first[2], e[2] * last[2] * first[1])

C19_LiveRescaled ==
    EquityCalled =>
        /\ \A n \in 1 .. Len(Points) :
             Points[n].is_live <=> DayOfPoint(n) >= LIVE_ENTRY_DATE
        /\ \A n \in 1 .. Len(Points) :
             (PrimaryRows # {} /\ DayOfPoint(n) = LastPrimaryDay)
                => Points[n].equity = Round(LastPrimaryEquity, 2)
        /\ (LiveRows # {} /\ args.alpaca[FirstLive].equity[1] > 0) =>
              \A n \in 1 .. Len(Points) :
                 /\ Points[n].is_live =>
                       Points[n].equity = Round(Rescaled(args.alpaca[LiveRowOf(n)].equity), 2)
                 /\ DayOfPoint(n) = args.alpaca[FirstLive].Date =>
                       Points[n].equity = Round(LastPrimaryEquity, 2)

\* two primary points, a csv row of the cutover day that is left out, and
\* two live points: 200 becomes 44000 and 100 becomes 22000
C19_Witness ==
    /\ EquityCalled
    /\ args.start_date = None /\ args.end_date = None
    /\ Len(args.csv_df) = 3 /\ args.csv_df[3].Date = LIVE_ENTRY_DATE
    /\ Len(args.alpaca) = 2
    /\ args.alpaca[1].equity = <<200, 1>> /\ args.alpaca[2].equity = <<100, 1>>
    /\ Len(Points) = 4
    /\ ~Points[1].is_live /\ ~Points[2].is_live /\ Points[3].is_live /\ Points[4].is_live
    /\ Points[2].equity = <<44000, 1>>
    /\ Points[3].equity = <<44000, 1>>
    /\ Points[4].equity = <<22000, 1>>

\* C20: in the points of both builders spy_equity is null on every date the
\* benchmark does not have, and on a date it has it is, to two decimals,
\* close / close on the first common date * equity on the first common
\* date, hence the point's own equity on the first common date.
CurveCalled ==
    /\ args.fn \in {"compute_equity_curve", "compute_alpaca_vix_equity_curve"}
    /\ result.done
BenchmarkDays == {args.spy_df[k].date : k \in 1 .. Len(args.spy_df)}
CloseOn(d) == args.spy_df[CHOOSE k \in 1 .. Len(args.spy_df) : args.spy_df[k].date = d].close
Common == {n \in 1 .. Len(Points) : DayOfPoint(n) \in BenchmarkDays}
FirstCommon == CHOOSE n \in Common : \A j \in Common : n <= j
BenchmarkAt(n) ==
    LET c == CloseOn(DayOfPoint(n))
        c0 == CloseOn(DayOfPoint(FirstCommon))
        e0 == result.value.df[FirstCommon].equity
    IN  Frac(c[1] * c0[2] * e0[1], c[2] * c0[1] * e0[2])

BenchmarkIs(n, v) == Points[n].spy_equity # PyNone /\ Points[n].spy_equity = v

C20_Benchmark ==
    CurveCalled =>
        \A n \in 1 .. Len(Points) :
            /\ n \notin Common => Points[n].spy_equity = PyNone
            /\ n \in Common => BenchmarkIs(n, Round(BenchmarkAt(n), 2))
            /\ (n \in Common /\ n = FirstCommon) => BenchmarkIs(n, Points[n].equity)

\* a first point the benchmark does not have, the first common date, and a
\* later one: null, 44000, 44000 * 420 / 440
C20_Witness ==
    /\ CurveCalled
    /\ args.fn = "compute_alpaca_vix_equity_curve"
    /\ Len(Points) = 3
    /\ BenchmarkDays = {DayOfPoint(2), DayOfPoint(3)}
    /\ Points[1].spy_equity = PyNone
    /\ Points[2].equity = <<44000, 1>> /\ BenchmarkIs(2, <<44000, 1>>)
    /\ BenchmarkIs(3, <<42000, 1>>)

\* C21: in both builders, at a point whose running peak (the largest equity
\* of the returned points up to it) is positive, the drawdown of the frame is
\* (peak - equity) / peak * 100, never negative and 0 exactly where the
\* equity is the running peak; the drawdown_pct returned is that value
\* rounded to two decimals, so it is 0 at every such point and also at a
\* point less than 0.005 percent below its peak. Where the running peak is
\* 0 the drawdown_pct is NaN.
Frame == result.value.df
RunningPeak(n) ==
    CHOOSE e \in {Frame[k].equity : k \in 1 .. n} :
        \A k \in 1 .. n : ~FracLt(e, Frame[k].equity)
AtPeak(n) == FracEq(Frame[n].equity, RunningPeak(n))
DrawdownOf(n) ==
    LET m == RunningPeak(n)
        e == Frame[n].equity
    IN  Frac((m[1] * e[2] - e[1] * m[2]) * 100, m[1] * e[2])

\* as stated: the returned drawdown_pct is never negative and is 0 exactly
\* at the running peaks
C21_ZeroExactlyAtPeaks ==
    CurveCalled =>
        \A n \in 1 .. Len(Points) :
            /\ ~FracLt(Points[n].drawdown_pct, <<0, 1>>)
            /\ FracEq(Points[n].drawdown_pct, <<0, 1>>) <=> AtPeak(n)

C21_Drawdown ==
    CurveCalled =>
        \A n \in 1 .. Len(Points) :
            /\ RunningPeak(n)[1] > 0 =>
                 /\ FracEq(Frame[n].drawdown_pct, DrawdownOf(n))
                 /\ ~FracLt(Frame[n].drawdown_pct, <<0, 1>>)
                 /\ FracEq(Frame[n].drawdown_pct, <<0, 1>>) <=> AtPeak(n)
                 /\ Points[n].drawdown_pct = Round(DrawdownOf(n), 2)
                 /\ ~FracLt(Points[n].drawdown_pct, <<0, 1>>)
                 /\ AtPeak(n) => Points[n].drawdown_pct = <<0, 1>>
                 /\ Points[n].drawdown_pct = <<0, 1>> => FracLt(DrawdownOf(n), <<1, 200>>)
            /\ RunningPeak(n)[1] = 0 => IsNaN(Points[n].drawdown_pct)

\* 55000, 44000, 55000, 54999.45: a new peak, 20 percent below it, the peak
\* again, and 0.001 percent below it, returned as 0
C21_Witness ==
    /\ CurveCalled
    /\ args.fn = "compute_alpaca_vix_equity_curve"
    /\ Len(Points) = 4
    /\ Points[1].drawdown_pct = <<0, 1>> /\ AtPeak(1)
    /\ Points[2].drawdown_pct = <<20, 1>>
    /\ Points[3].drawdown_pct = <<0, 1>> /\ AtPeak(3)
    /\ Points[4].drawdown_pct = <<0, 1>> /\ ~AtPeak(4)
    /\ Frame[4].drawdown_pct = <<1, 1000>>

\* C22: on every row, in every mode, an entry and an exit never fire
\* together: an entry fires only out of a position and leaves the engine in
\* one, an exit fires only in a position and leaves the engine out of one.
ReadsRow == Len(closes') = Len(closes) + 1

C22_EntryOrExit ==
    [][ReadsRow =>
          /\ ~(EntryFires /\ ExitFires)
          /\ EntryFires => (~in_position /\ in_position')
          /\ ExitFires => (in_position /\ ~in_position')
          /\ \A i \in 1 .. NewRow : entry_signals'[i] + exit_signals'[i] <= 1]_vars

\* a position closed on one row and the next one opened on the row after
C22_Witness ==
    /\ Len(closes) >= 2
    /\ exit_signals[Len(closes) - 1] = 1 /\ entry_signals[Len(closes) - 1] = 0
    /\ entry_signals[Len(closes)] = 1 /\ exit_signals[Len(closes)] = 0
    /\ in_position

\* C23: a row without a slope changes no state variable, fires no entry and
\* no exit, appends no trade and carries the flag it found into the Flag
\* column; prev_slope_active is therefore always the level of the last row
\* that had a slope.
ReadsUndefinedRow == ReadsRow /\ IsNaN(slopes'[NewRow])
LastDefinedAbove ==
    LET D == {j \in 1 .. Len(slopes) : ~IsNaN(slopes[j])}
    IN  D # {} /\ FracGt(slopes[CHOOSE j \in D : \A k \in D : k <= j], pos_threshold)

C23_SkipChangesNothing ==
    [][ReadsUndefinedRow =>
          /\ UNCHANGED <<flag, in_position, entry_price, entry_date, entry_type,
                         prev_slope_active, trades>>
          /\ ~EntryFires /\ ~ExitFires
          /\ flags'[NewRow] = flag
          /\ prev_slope_active' = LastDefinedAbove']_vars

\* a gap inside a position: the row is active, the flag stays down
C23_Witness ==
    /\ Len(closes) > slope_window
    /\ IsNaN(slopes[Len(closes)]) /\ ~IsNaN(slopes[Len(closes) - 1])
    /\ actives[Len(closes)] = 1
    /\ flag = 0 /\ flags[Len(closes)] = 0
    /\ in_position /\ prev_slope_active

\* C24: on a row with a slope, in every mode, the row counts as
\* oscillator-just-activated exactly when Active = 1 and the flag was 0, and
\* then the flag is 1 after the row; in mode Both such a row with its slope
\* above the threshold opens a position at once.
C24_LatchFirst ==
    [][ReadsDefinedRow =>
          /\ rsi_just_activated' = LatchedNow
          /\ LatchedNow => (flag' = 1 /\ flags'[NewRow] = 1)
          /\ (LatchedNow /\ signal_type = "Both" /\ ~in_position /\ Above(NewRow))
                => (EntryFires /\ entry_type' = "RSI")]_vars

\* the marker of the row before is gone: two active rows in a row, the flag
\* set on the first
C24_Witness ==
    /\ Len(closes) >= 3
    /\ ~IsNaN(slopes[Len(closes) - 1]) /\ ~IsNaN(slopes[Len(closes)])
    /\ actives[Len(closes) - 1] = 1 /\ actives[Len(closes)] = 1
    /\ flags[Len(closes) - 2] = 0 /\ flags[Len(closes) - 1] = 1 /\ flags[Len(closes)] = 1
    /\ ~rsi_just_activated

\* C25: the flag goes from 0 to 1 only on an active row with a slope, and
\* from 1 to 0 only on a row where an exit fires.
C25_FlagLatch ==
    [][ReadsRow =>
          /\ (flag = 1 /\ flag' = 0) => ExitFires
          /\ (flag = 1 /\ ~ExitFires) => flag' = 1
          /\ (flag = 0 /\ flag' = 1) => (actives'[NewRow] = 1 /\ ~IsNaN(slopes'[NewRow]))]_vars

\* set, held over a row without a position, and cleared by the exit
C25_Witness ==
    /\ Len(closes) >= 4
    /\ flags[Len(closes) - 3] = 1 /\ entry_signals[Len(closes) - 3] = 0
    /\ in_trades[Len(closes) - 3] = 0
    /\ entry_signals[Len(closes) - 2] = 1
    /\ flags[Len(closes) - 1] = 1
    /\ exit_signals[Len(closes)] = 1 /\ flags[Len(closes)] = 0
    /\ flag = 0

\* C26: in mode Both a position is held only while prev_slope_active is
\* true, so on a row with a slope read in a position the exit fires exactly
\* when slope <= pos_threshold.
C26_BothExitIsLevel ==
    [][(ReadsDefinedRow /\ signal_type = "Both" /\ in_position) =>
          /\ prev_slope_active
          /\ ExitFires <=> FracLe(slopes'[NewRow], pos_threshold)]_vars

\* a position held over a row and closed on a slope equal to the threshold
C26_Witness ==
    /\ signal_type = "Both"
    /\ Len(closes) >= 4
    /\ entry_signals[Len(closes) - 2] = 1
    /\ in_trades[Len(closes) - 1] = 1
    /\ exit_signals[Len(closes)] = 1
    /\ FracEq(slopes[Len(closes)], <<pos_threshold, 1>>)

\* C27: in mode Both a position is held only with the flag set, and the
\* flag is cleared only on a row that closes the position.
C27_PositionImpliesFlag ==
    [][(ReadsRow /\ signal_type = "Both") =>
          /\ in_position => flag = 1
          /\ in_position' => flag' = 1
          /\ (flag = 1 /\ flag' = 0) => (in_position /\ ~in_position')]_vars

\* a position opened by a slope entry on a flag set rows before
C27_Witness ==
    /\ signal_type = "Both"
    /\ in_position /\ flag = 1
    /\ entry_type = "Slope" /\ entry_signals[Len(closes)] = 1
    /\ actives[Len(closes)] = 0

\* C28: the trades returned span a positive number of days from the first
\* entry to the last exit, their days_held add up to no more than that, and
\* time_in_market before rounding is above 0 and at most 100.
TradeSpan ==
    LET first == CHOOSE d \in {trades[k].entry_date : k \in 1 .. Len(trades)} :
                     \A k \in 1 .. Len(trades) : d <= trades[k].entry_date
        last == CHOOSE d \in {trades[k].exit_date : k \in 1 .. Len(trades)} :
                    \A k \in 1 .. Len(trades) : d >= trades[k].exit_date
    IN  last - first
DaysInTrades == Sum([k \in 1 .. Len(trades) |-> trades[k].days_held])

C28_TimeInMarketBounded ==
    trades # <<>> =>
        /\ StrictDates
        /\ TradeSpan > 0
        /\ DaysInTrades <= TradeSpan
        /\ FracGt(time_in_market_of(trades), 0)
        /\ FracLe(time_in_market_of(trades), 100)
        /\ calculate_performance_metrics(trades).time_in_market
             = Round(time_in_market_of(trades), 2)

\* two trades with days out of the market between them
C28_Witness ==
    /\ Len(trades) = 2
    /\ DaysInTrades < TradeSpan
    /\ FracGt(time_in_market_of(trades), 0)
    /\ ~FracGt(time_in_market_of(trades), 99)

\* C29: the stream of get_overview_analysis_stream over N branches is, at
\* every moment, progress events with current = 1, 2, ... in that order and
\* total = N, no branch named twice, and a complete event only behind N
\* progress events; and every run ends with N progress events that name
\* every branch, failed or without overview, and one complete event last.
StreamCalled == args.fn = "get_overview_analysis_stream"
Total == Len(args.branches)
ProgressEvents == SelectSeq(events, LAMBDA e : e.type = "progress")
CompleteEvents == SelectSeq(events, LAMBDA e : e.type = "complete")
StreamInOrder ==
    /\ Len(ProgressEvents) <= Total
    /\ \A k \in 1 .. Len(ProgressEvents) :
           /\ events[k].type = "progress"
           /\ events[k].current = k
           /\ events[k].total = Total
           /\ \E b \in 1 .. Total : events[k].branch = args.branches[b]
           /\ \A j \in 1 .. k - 1 : events[j].branch # events[k].branch
    /\ Len(CompleteEvents) <= 1
    /\ CompleteEvents # <<>> =>
           (Len(ProgressEvents) = Total /\ events[Len(events)].type = "complete")
StreamEnded ==
    /\ result.done
    /\ Len(events) = Total + 1
    /\ Len(ProgressEvents) = Total
    /\ {ProgressEvents[k].branch : k \in 1 .. Total} = {args.branches[b] : b \in 1 .. Total}
    /\ events[Total + 1].type = "complete"

C29_ProgressThenComplete ==
    StreamCalled => ([]StreamInOrder /\ <>[](StreamInOrder /\ StreamEnded))

\* three branches done in another order than submitted, one that raised and
\* one without overview among them
C29_Witness ==
    /\ StreamCalled /\ StreamEnded
    /\ Total = 3
    /\ events[1].branch = 3 /\ events[2].branch = 1 /\ events[3].branch = 2
    /\ args.files[3].kind = "raises" /\ args.files[1].kind = "no_ticker"
    /\ Len(events[4].branches) = 1 /\ events[4].branches[1].branch = 2

\* C30: get_overview_analysis returns, whatever the order in which the
\* workers start and end, exactly the overviews of the branches whose
\* computation yields one, each once and with the values a call of
\* _compute_branch_overview_cached on that branch alone gives, ordered by
\* return_pct from high to low.
OverviewCalled == args.fn = "get_overview_analysis"
Alone(b) == compute_branch_overview(args.branches[b], args.files[b])
Yields(b) == ~Alone(b).raised /\ Alone(b).value # PyNone
OverviewOut == result.value.branches

C30_WorkersDoNotInterfere ==
    OverviewCalled =>
        /\ \A i \in 1 .. Len(futures) :
               futures[i].state = "finished" => futures[i].outcome = Alone(i)
        /\ result.done =>
               /\ Len(OverviewOut) = Cardinality({b \in 1 .. Total : Yields(b)})
               /\ \A b \in 1 .. Total :
                      Cardinality({k \in 1 .. Len(OverviewOut) :
                                      OverviewOut[k].branch = args.branches[b]})
                        = IF Yields(b) THEN 1 ELSE 0
               /\ \A k \in 1 .. Len(OverviewOut) :
                      OverviewOut[k] = Alone(OverviewOut[k].branch).value
               /\ \A k \in 1 .. Len(OverviewOut) - 1 :
                      ~FracLt(OverviewOut[k].return_pct, OverviewOut[k + 1].return_pct)

\* the branch submitted last ended first: two overviews with the same
\* return in the order the workers ended, behind one with a higher return,
\* started from an empty cache
C30_Witness ==
    /\ OverviewCalled /\ result.done
    /\ Total = 3
    /\ Len(OverviewOut) = 2
    /\ OverviewOut[1].branch = 3 /\ OverviewOut[2].branch = 1
    /\ OverviewOut[1].return_pct = OverviewOut[2].return_pct
    /\ OverviewOut[1].trades = 2
    /\ args.files[2].kind = "raises"
    /\ DOMAIN cache = {1, 3}

=============================================================================
